---- MODULE Spec2Model ----
(***************************************************************************)
(* Verification model of the collection pipeline of                        *)
(* MMM-HK-Transport-ETA-Data: the concurrency batcher, the fetch client    *)
(* with its file-backed cache, the token-bucket rate limiter and the       *)
(* per-route collector.  Each component has its own specification over     *)
(* its own group of variables; the variables of the other components stay  *)
(* at their idle values.                                                   *)
(***************************************************************************)
EXTENDS Integers, Sequences, FiniteSets, TLC

(***************************************************************************)
(* Bounds of the model.                                                    *)
(***************************************************************************)
MaxItems == 4
MaxLimit == 2
MaxTime == 3
MaxCalls == 2
MaxOps == 3
MaxWaits == 5
MaxStops == 2
MaxRoutes == 3
MaxAssoc == 3

Null == "null"

Min(a, b) == IF a < b THEN a ELSE b

(***************************************************************************)
(* Variables of the concurrency batcher (processWithConcurrency and the    *)
(* collectors' batch loops).                                               *)
(***************************************************************************)
VARIABLES
  items,               \* the input list
  concurrentRequests,  \* the batch limit
  i,                   \* loop index of the for loop (0-based offset)
  bpc,                 \* "loop" | "await" | "done" | "rejected"
  calls,               \* position -> the promise of processor(items[position])
  settleOrder,         \* history: the positions in the order their promises settled
  results              \* the results array

batchVars == <<items, concurrentRequests, i, bpc, calls, settleOrder, results>>

(***************************************************************************)
(* Variables of the fetch client (BaseApiClient.fetchJson), its throttle   *)
(* and the file-backed ApiCache.                                           *)
(***************************************************************************)
VARIABLES
  now,          \* Date.now(), in ticks
  enabled,      \* ApiCache.enabled (ENABLE_API_CACHE !== 'false')
  files,        \* the cache directory: cache path -> Null or [content, mtime]
  fc,           \* caller -> the state of its fetchJson / cache call
  currentTick,  \* throttle: start of the current rate window
  activeCount,  \* throttle: calls admitted to the current rate window
  lastSet,      \* history: url -> the last completed cache.set(url, v)
  ncalls        \* history: number of calls made so far

fetchVars == <<now, enabled, files, fc, currentTick, activeCount, lastSet, ncalls>>

(***************************************************************************)
(* Variables of the token-bucket RateLimiter of the collect-ctb-data       *)
(* script.  It reads the clock `now` of the fetch client.                   *)
(***************************************************************************)
VARIABLES
  tokens,      \* this.tokens, in units of 1/TokenScale of a token
  lastRefill,  \* this.lastRefill
  wpc,         \* caller -> "idle" | "delay" (suspended in await delay(waitTime))
  wakeAt,      \* caller -> the time its timer is due
  via,         \* history: caller -> how its last wait() returned
  admitted,    \* history: number of wait() calls that have returned
  started      \* history: number of wait() calls made

limVars == <<tokens, lastRefill, wpc, wakeAt, via, admitted, started>>

(***************************************************************************)
(* Variables of CTBDataCollector.collectRouteStops.                        *)
(***************************************************************************)
VARIABLES
  rspc,       \* "idle" | "await" | "done"
  route,      \* the route parameter
  legs,       \* direction -> the promise of its fetchJson call
  composite,  \* the value collectRouteStops resolves to
  rsOutcome   \* "fulfilled" | "rejected": how collectRouteStops settled

rsVars == <<rspc, route, legs, composite, rsOutcome>>

(***************************************************************************)
(* Variables of CTBDataCollector.collectStopDetails.                       *)
(***************************************************************************)
VARIABLES
  sdpc,       \* "idle" | "await" | "settled" | "done"
  sdStop,     \* the stopId parameter
  sdFetch,    \* the promise of the fetchJson call
  sdResult,   \* the value collectStopDetails resolves to
  sdOutcome   \* "fulfilled" | "rejected": how collectStopDetails settled

sdVars == <<sdpc, sdStop, sdFetch, sdResult, sdOutcome>>

(***************************************************************************)
(* Variables of compareRoutes: the two argument arrays as they are after   *)
(* the call, the arguments as passed, and the results of the call and of   *)
(* the call with the arguments swapped.                                    *)
(***************************************************************************)
VARIABLES
  cmppc,        \* "idle" | "done"
  existingRoutes, newRoutes,  \* the argument arrays after the call
  passedRoutes,               \* <<existingRoutes, newRoutes>> as passed
  cmpResult,    \* compareRoutes(existingRoutes, newRoutes)
  cmpSwapped    \* compareRoutes(newRoutes, existingRoutes)

cmpVars == <<cmppc, existingRoutes, newRoutes, passedRoutes, cmpResult, cmpSwapped>>

(***************************************************************************)
(* Variables of CTBDataCollector.collectOptimizedStopDetails.              *)
(***************************************************************************)
VARIABLES
  optpc,             \* "idle" | "snapshot" | "analyze" | "fetch" | "combine" | "done"
  stopIds,           \* the stopIds parameter
  stopRoutesMap,     \* the stopRoutesMap parameter
  snapshotFetch,     \* "none" | "pending" | "fulfilled" | "rejected"
  existingAllStops,  \* what fetchExistingAllStops resolved to
  stopsToFetch,
  stopsFromCache,
  fetchResults,      \* the settled entries of collectAllStopDetails
  issued,            \* the stops a stop-detail fetch was issued for, in order
  allResults,        \* the value collectOptimizedStopDetails resolves to
  optOutcome         \* "fulfilled" | "rejected"

optVars ==
  <<optpc, stopIds, stopRoutesMap, snapshotFetch, existingAllStops, stopsToFetch,
    stopsFromCache, fetchResults, issued, allResults, optOutcome>>

(***************************************************************************)
(* Variables of enrichStopWithRoutes applied once and then again to its    *)
(* own result.                                                             *)
(***************************************************************************)
VARIABLES
  enpc,        \* "idle" | "once" | "twice"
  stopData,    \* the stop record passed to the first call
  mapEntry,    \* stopRoutesMap[stopId]
  variant,     \* "base" | "kmb": the processor class
  enriched,    \* the result of the first call
  reEnriched   \* the result of the call on the result of the first call

enVars == <<enpc, stopData, mapEntry, variant, enriched, reEnriched>>

(***************************************************************************)
(* Variables of createEnrichedRouteData.                                   *)
(***************************************************************************)
VARIABLES
  erpc,               \* "idle" | "done"
  routeStops,         \* routeStops[route]: the inbound and the outbound list
  successfulStops,    \* the stops whose details were collected
  processor,          \* "ctb" | "kmb": the processor class
  enrichedRouteData   \* the stops of the returned record

erVars == <<erpc, routeStops, successfulStops, processor, enrichedRouteData>>

(***************************************************************************)
(* Variables of KMBService.addNearbyStopIdsToMemory.                       *)
(***************************************************************************)
VARIABLES
  nbpc,          \* "idle" | "done"
  allStopsData,  \* the stop records in memory, which the method updates
  stopsBefore    \* the stop records as they were passed

nbVars == <<nbpc, allStopsData, stopsBefore>>

(***************************************************************************)
(* Variables of saveAllRoutes (CTBFileManager and KMBFileManager).         *)
(***************************************************************************)
VARIABLES
  sarpc,          \* "idle" | "built" | "done"
  allRoutesData,  \* the allRoutesData parameter: route -> enriched stops
  manager,        \* "ctb" | "kmb": the file manager class
  compactData,    \* the compact structure: routes and stops
  allroutesFile,  \* what allroutes.json holds
  sarResult       \* the value saveAllRoutes resolves to

sarVars == <<sarpc, allRoutesData, manager, compactData, allroutesFile, sarResult>>

(***************************************************************************)
(* Variables of a run of Service.collectAndSaveData (CTBService and        *)
(* KMBService).                                                            *)
(***************************************************************************)
VARIABLES
  svpc,        \* the step the run is at
  svService,   \* "ctb" | "kmb"
  svRoutes,    \* routes: the route names collectRoutes returned
  svRouteStops,    \* routeStops: route -> inbound and outbound associations
  svStopRoutesMap, \* stopRoutesMap: stop id -> the routes that serve it
  svStopsMap,  \* the details collected, by stop id (successfulStops / stopsMap)
  svAllStops,  \* allStopsData
  svCounters,  \* processedStops, saveErrors, routeSaveErrors
  svFiles,     \* the files the run has written
  svFaults,    \* what failed during the run
  svOutcome    \* how the promise of collectAndSaveData settled

svVars == <<svpc, svService, svRoutes, svRouteStops, svStopRoutesMap, svStopsMap,
            svAllStops, svCounters, svFiles, svFaults, svOutcome>>

(***************************************************************************)
(* Variables of the construction of routeStops and stopRoutesMap           *)
(* (CTBDataProcessor.processRouteStopResults, KMBService).                 *)
(***************************************************************************)
VARIABLES
  prpc,             \* "idle" | "done"
  prService,        \* "ctb" | "kmb"
  routeStopResults, \* CTB: the settled results of collectAllRouteStops
  prInput,          \* KMB: the routes and the route-stop feed
  prRouteStops,     \* routeStops
  prStopRoutesMap   \* stopRoutesMap, each Set as its insertion order

prVars == <<prpc, prService, routeStopResults, prInput, prRouteStops, prStopRoutesMap>>

(***************************************************************************)
(* Variables of KMBDataCollector.collectStopDetailsForStops.               *)
(***************************************************************************)
VARIABLES
  bkpc,        \* "idle" | "delay" | "fetch" | "backoff" | "done"
  retries,     \* the attempts left
  bkAttempts,  \* the calls of fetchJson so far
  bkWaits,     \* the timers awaited so far, in milliseconds, in order
  lastError,   \* the error of the last failed attempt
  bkOutcome    \* how the call settled

bulkVars == <<bkpc, retries, bkAttempts, bkWaits, lastError, bkOutcome>>

(***************************************************************************)
(* Variables of the top-level runners (main).                              *)
(***************************************************************************)
VARIABLES
  rnpc,       \* "idle" | "running" | "exited"
  runner,     \* "all" (CTB, then KMB) | "kmb"
  rnSettled,  \* what collectAndSaveData of each service run so far settled with
  rnOutput,   \* the lines written to the console, in order
  rnExit      \* the exit of the process

runVars == <<rnpc, runner, rnSettled, rnOutput, rnExit>>

(***************************************************************************)
(* Variables of the transport retry of one GET (ky) and of the retry limit *)
(* of the configuration.                                                   *)
(***************************************************************************)
VARIABLES
  kypc,        \* "idle" | "loaded" | "fetch" | "done"
  retryLimit,  \* config.api.retryLimit
  kyAnswers,   \* the status codes the server answered with, in order
  kyOutcome    \* how loadApiConfig or fetchJson settled

kyVars == <<kypc, retryLimit, kyAnswers, kyOutcome>>

(***************************************************************************)
(* Variables of the requests of a collection run (collectAllRouteStops     *)
(* with collectRouteStops; the Promise.all of KMBService).                 *)
(***************************************************************************)
VARIABLES
  cqpc,        \* "idle" | "batch" | "done"
  cqService,   \* "ctb" | "kmb"
  cqLimit,     \* this.concurrentRequests
  cqRate,      \* requestsPerSecond, the limit of the throttle
  routeList,   \* routes.map(r => r.route)
  cqOffset,    \* the offset of the batch in routeList
  requests,    \* the fetchJson calls of the batch: "queued" | "inflight" | "settled"
  cqWindow     \* throttle: the calls started in the current interval

cqVars == <<cqpc, cqService, cqLimit, cqRate, routeList, cqOffset, requests, cqWindow>>

vars == <<batchVars, fetchVars, limVars, rsVars, sdVars, cmpVars, optVars, enVars, erVars, nbVars, sarVars, svVars, prVars, bulkVars, runVars, kyVars, cqVars>>

otherThanBatch == <<fetchVars, limVars, rsVars, sdVars, cmpVars, optVars, enVars, erVars, nbVars, sarVars, svVars, prVars, bulkVars, runVars, kyVars, cqVars>>

otherThanFetch == <<batchVars, limVars, rsVars, sdVars, cmpVars, optVars, enVars, erVars, nbVars, sarVars, svVars, prVars, bulkVars, runVars, kyVars, cqVars>>

otherThanLimiter ==
  <<batchVars, enabled, files, fc, currentTick, activeCount, lastSet, ncalls, rsVars, sdVars, cmpVars, optVars, enVars, erVars, nbVars, sarVars, svVars, prVars, bulkVars, runVars, kyVars, cqVars>>

otherThanRouteStops == <<batchVars, fetchVars, limVars, sdVars, cmpVars, optVars, enVars, erVars, nbVars, sarVars, svVars, prVars, bulkVars, runVars, kyVars, cqVars>>

otherThanStopDetails == <<batchVars, fetchVars, limVars, rsVars, cmpVars, optVars, enVars, erVars, nbVars, sarVars, svVars, prVars, bulkVars, runVars, kyVars, cqVars>>

otherThanCompare == <<batchVars, fetchVars, limVars, rsVars, sdVars, optVars, enVars, erVars, nbVars, sarVars, svVars, prVars, bulkVars, runVars, kyVars, cqVars>>

otherThanOptimized == <<batchVars, fetchVars, limVars, rsVars, sdVars, cmpVars, enVars, erVars, nbVars, sarVars, svVars, prVars, bulkVars, runVars, kyVars, cqVars>>

otherThanEnrich == <<batchVars, fetchVars, limVars, rsVars, sdVars, cmpVars, optVars, erVars, nbVars, sarVars, svVars, prVars, bulkVars, runVars, kyVars, cqVars>>

otherThanEnrichRoute == <<batchVars, fetchVars, limVars, rsVars, sdVars, cmpVars, optVars, enVars, nbVars, sarVars, svVars, prVars, bulkVars, runVars, kyVars, cqVars>>

otherThanNearby == <<batchVars, fetchVars, limVars, rsVars, sdVars, cmpVars, optVars, enVars, erVars, sarVars, svVars, prVars, bulkVars, runVars, kyVars, cqVars>>

otherThanSaveAllRoutes == <<batchVars, fetchVars, limVars, rsVars, sdVars, cmpVars, optVars, enVars, erVars, nbVars, svVars, prVars, bulkVars, runVars, kyVars, cqVars>>

otherThanService == <<batchVars, fetchVars, limVars, rsVars, sdVars, cmpVars, optVars, enVars, erVars, nbVars, sarVars, prVars, bulkVars, runVars, kyVars, cqVars>>

otherThanProcess == <<batchVars, fetchVars, limVars, rsVars, sdVars, cmpVars, optVars, enVars, erVars, nbVars, sarVars, svVars, bulkVars, runVars, kyVars, cqVars>>

otherThanBulk == <<batchVars, fetchVars, limVars, rsVars, sdVars, cmpVars, optVars, enVars, erVars, nbVars, sarVars, svVars, prVars, runVars, kyVars, cqVars>>

otherThanRun == <<batchVars, fetchVars, limVars, rsVars, sdVars, cmpVars, optVars, enVars, erVars, nbVars, sarVars, svVars, prVars, bulkVars, kyVars, cqVars>>

otherThanKy == <<batchVars, fetchVars, limVars, rsVars, sdVars, cmpVars, optVars, enVars, erVars, nbVars, sarVars, svVars, prVars, bulkVars, runVars, cqVars>>

otherThanRequests == <<batchVars, fetchVars, limVars, rsVars, sdVars, cmpVars, optVars, enVars, erVars, nbVars, sarVars, svVars, prVars, bulkVars, runVars, kyVars>>

(***************************************************************************)
(* Idle values: the state of a component that a specification leaves out.  *)
(***************************************************************************)
Callers == {1, 2}

Urls == {"u1", "u2"}

None == [v |-> Null, at |-> 0, ok |-> FALSE, set |-> FALSE]

NoFile == [exists |-> FALSE, content |-> <<>>, mtime |-> 0]

NoPrior == [v |-> Null, ok |-> FALSE, set |-> FALSE, within |-> FALSE]

IdleCall ==
  [op |-> "none", pc |-> "idle", url |-> Null,
   cachedData |-> Null, data |-> Null, outcome |-> Null, result |-> Null,
   runAt |-> 0, net |-> 0, slots |-> 0, seen |-> Null, prior |-> NoPrior,
   setFailed |-> FALSE]

IdleBatch ==
  /\ items = <<>>
  /\ concurrentRequests = 1
  /\ i = 0
  /\ bpc = "done"
  /\ calls = <<>>
  /\ settleOrder = <<>>
  /\ results = <<>>

Waiters == {1, 2}

IdleLimiter ==
  /\ tokens = 0
  /\ lastRefill = 0
  /\ wpc = [p \in Waiters |-> "idle"]
  /\ wakeAt = [p \in Waiters |-> 0]
  /\ via = [p \in Waiters |-> "none"]
  /\ admitted = 0
  /\ started = 0

Directions == {"inbound", "outbound"}

NoComposite == [route |-> Null, inbound |-> <<>>, outbound |-> <<>>, error |-> FALSE]

IdleRouteStops ==
  /\ rspc = "idle"
  /\ route = Null
  /\ legs = [d \in Directions |-> [status |-> "none", hasData |-> FALSE, data |-> <<>>]]
  /\ composite = NoComposite
  /\ rsOutcome = Null

\* JavaScript null in a position that otherwise holds an object
NullData == [null |-> TRUE]

NoStopFetch == [status |-> "none", hasData |-> FALSE, data |-> NullData]

NoStopResult == [stopId |-> Null, data |-> NullData, error |-> FALSE]

IdleStopDetails ==
  /\ sdpc = "idle"
  /\ sdStop = Null
  /\ sdFetch = NoStopFetch
  /\ sdResult = NoStopResult
  /\ sdOutcome = Null

\* a null or undefined array argument
Absent == [present |-> FALSE, list |-> <<>>]

IdleCompare ==
  /\ cmppc = "idle"
  /\ existingRoutes = Absent
  /\ newRoutes = Absent
  /\ passedRoutes = <<Absent, Absent>>
  /\ cmpResult = FALSE
  /\ cmpSwapped = FALSE

IdleOptimized ==
  /\ optpc = "idle"
  /\ stopIds = <<>>
  /\ stopRoutesMap = <<>>
  /\ snapshotFetch = "none"
  /\ existingAllStops = <<>>
  /\ stopsToFetch = <<>>
  /\ stopsFromCache = <<>>
  /\ fetchResults = <<>>
  /\ issued = <<>>
  /\ allResults = <<>>
  /\ optOutcome = Null

\* stopRoutesMap has no entry for the stop
NoEntry == [present |-> FALSE, isArray |-> FALSE, list |-> <<>>]

IdleEnrich ==
  /\ enpc = "idle"
  /\ stopData = NullData
  /\ mapEntry = NoEntry
  /\ variant = Null
  /\ enriched = NullData
  /\ reEnriched = NullData

IdleEnrichRoute ==
  /\ erpc = "idle"
  /\ routeStops = [inbound |-> <<>>, outbound |-> <<>>]
  /\ successfulStops = <<>>
  /\ processor = Null
  /\ enrichedRouteData = <<>>

IdleNearby ==
  /\ nbpc = "idle"
  /\ allStopsData = <<>>
  /\ stopsBefore = <<>>

NoCompactData == [routes |-> <<>>, stops |-> <<>>]

\* allroutes.json has not been written
NotWritten == [written |-> FALSE, content |-> NoCompactData]

IdleSaveAllRoutes ==
  /\ sarpc = "idle"
  /\ allRoutesData = <<>>
  /\ manager = Null
  /\ compactData = NoCompactData
  /\ allroutesFile = NotWritten
  /\ sarResult = Null

NoCounters == [processedStops |-> 0, saveErrors |-> 0, routeSaveErrors |-> 0]

\* an output directory with no file in it
NoFiles == [stops |-> <<>>, allstops |-> <<>>, routes |-> <<>>, allroutes |-> NotWritten]

\* the promise of collectAndSaveData is pending
Unsettled == [settled |-> FALSE]

IdleService ==
  /\ svpc = "idle"
  /\ svService = Null
  /\ svRoutes = <<>>
  /\ svRouteStops = <<>>
  /\ svStopRoutesMap = <<>>
  /\ svStopsMap = <<>>
  /\ svAllStops = <<>>
  /\ svCounters = NoCounters
  /\ svFiles = NoFiles
  /\ svFaults = {}
  /\ svOutcome = Unsettled

NoInput == [routes |-> <<>>, allRouteStops |-> <<>>]

IdleProcess ==
  /\ prpc = "idle"
  /\ prService = Null
  /\ routeStopResults = <<>>
  /\ prInput = NoInput
  /\ prRouteStops = <<>>
  /\ prStopRoutesMap = <<>>

NoError == [message |-> Null, code |-> Null]

IdleBulk ==
  /\ bkpc = "idle"
  /\ retries = 0
  /\ bkAttempts = 0
  /\ bkWaits = <<>>
  /\ lastError = NoError
  /\ bkOutcome = Unsettled

NotExited == [exited |-> FALSE]

IdleRun ==
  /\ rnpc = "idle"
  /\ runner = Null
  /\ rnSettled = <<>>
  /\ rnOutput = <<>>
  /\ rnExit = NotExited

NotLoaded == [ok |-> FALSE]

IdleKy ==
  /\ kypc = "idle"
  /\ retryLimit = NotLoaded
  /\ kyAnswers = <<>>
  /\ kyOutcome = Unsettled

IdleRequests ==
  /\ cqpc = "idle"
  /\ cqService = Null
  /\ cqLimit = 0
  /\ cqRate = 0
  /\ routeList = <<>>
  /\ cqOffset = 0
  /\ requests = <<>>
  /\ cqWindow = 0

IdleFetch ==
  /\ now = 0
  /\ enabled = FALSE
  /\ files = [u \in Urls |-> NoFile]
  /\ fc = [c \in Callers |-> IdleCall]
  /\ currentTick = 0
  /\ activeCount = 0
  /\ lastSet = [u \in Urls |-> None]
  /\ ncalls = 0

(***************************************************************************)
(* The batcher.                                                            *)
(***************************************************************************)
ItemIds == {"a", "b"}

ItemLists == UNION {[1..n -> ItemIds] : n \in 0..MaxItems}

NotStarted == [status |-> "none", value |-> Null]

\* items.slice(i, i + limit): the positions (1-based) of the batch
SliceOf(off, lim, len) == {k \in 1..len : off < k /\ k <= off + lim}

batch == SliceOf(i, concurrentRequests, Len(items))

IsSettled(p) == p.status \in {"fulfilled", "rejected"}

\* Promise.race-like readiness: resumes on the first settlement
AnySettled(b) == \E k \in b : IsSettled(calls[k])

\* Promise.allSettled resolves once every promise of the batch has settled
AllSettled(b) == \A k \in b : IsSettled(calls[k])

RECURSIVE SetToSortedSeq(_)
SetToSortedSeq(S) ==
  IF S = {} THEN <<>>
  ELSE LET m == CHOOSE x \in S : \A y \in S : x <= y
       IN <<m>> \o SetToSortedSeq(S \ {m})

\* results taken in completion order instead of input order
SettledInCompletionOrder(b) ==
  LET ord == SelectSeq(settleOrder, LAMBDA k : k \in b)
  IN [n \in 1..Len(ord) |-> calls[ord[n]]]

\* the array Promise.allSettled resolves to: one settled result per promise,
\* in the order of the input array
SettledResults(b) ==
  LET ord == SetToSortedSeq(b) IN [n \in 1..Len(ord) |-> calls[ord[n]]]

\* Promise.all instead: rejects as soon as one promise of the batch is rejected
AwaitRejectsOnFailure(b) == \E k \in b : calls[k].status = "rejected"

\* awaiting Promise.allSettled never throws
AwaitRejects(b) == FALSE

InitBatch ==
  /\ items \in ItemLists
  /\ concurrentRequests \in 1..MaxLimit
  /\ i = 0
  /\ bpc = "loop"
  /\ calls = [k \in 1..Len(items) |-> NotStarted]
  /\ settleOrder = <<>>
  /\ results = <<>>

\* batch.map(item => processor(item)): every invocation of the batch starts
StartBatch ==
  /\ bpc = "loop"
  /\ i < Len(items)
  /\ calls' = [k \in 1..Len(items) |->
                 IF k \in batch THEN [status |-> "pending", value |-> Null]
                 ELSE calls[k]]
  /\ bpc' = "await"
  /\ UNCHANGED <<items, concurrentRequests, i, settleOrder, results>>
  /\ UNCHANGED otherThanBatch

\* one processor invocation settles: fulfilled with a value or rejected with a
\* reason, both derived from its item; any pending invocation may be next
SettleCall(k, st) ==
  /\ calls[k].status = "pending"
  /\ calls' = [calls EXCEPT ![k] = [status |-> st, value |-> items[k]]]
  /\ settleOrder' = Append(settleOrder, k)
  /\ UNCHANGED <<items, concurrentRequests, i, bpc, results>>
  /\ UNCHANGED otherThanBatch

\* the await of Promise.allSettled resumes; results.push(...batchResults); i += limit
JoinBatch ==
  /\ bpc = "await"
  /\ AllSettled(batch) \/ AwaitRejects(batch)
  /\ IF AwaitRejects(batch)
       THEN /\ bpc' = "rejected"
            /\ UNCHANGED <<i, results>>
       ELSE /\ results' = results \o SettledResults(batch)
            /\ i' = i + concurrentRequests
            /\ bpc' = "loop"
  /\ UNCHANGED <<items, concurrentRequests, calls, settleOrder>>
  /\ UNCHANGED otherThanBatch

\* the loop condition fails: return results
ReturnResults ==
  /\ bpc = "loop"
  /\ i >= Len(items)
  /\ bpc' = "done"
  /\ UNCHANGED <<items, concurrentRequests, i, calls, settleOrder, results>>
  /\ UNCHANGED otherThanBatch

Next ==
  \/ StartBatch
  \/ \E k \in 1..Len(items), st \in {"fulfilled", "rejected"} : SettleCall(k, st)
  \/ JoinBatch
  \/ ReturnResults

Init == InitBatch /\ IdleFetch /\ IdleLimiter /\ IdleRouteStops /\ IdleStopDetails /\ IdleCompare /\ IdleOptimized /\ IdleEnrich /\ IdleEnrichRoute /\ IdleNearby /\ IdleSaveAllRoutes /\ IdleService /\ IdleProcess /\ IdleBulk /\ IdleRun /\ IdleKy /\ IdleRequests

Spec == Init /\ [][Next]_vars

\* the chunk (0-based) an input position belongs to
ChunkOf(k) == (k - 1) \div concurrentRequests

Pending == {k \in 1..Len(items) : calls[k].status = "pending"}

\* C1: processWithConcurrency returns a results array as long as the input whose
\* element k is the settled outcome of processor(items[k]), whatever the order
\* in which the invocations of a batch complete; while the loop runs, results
\* holds exactly the outcomes of the items of the finished batches, in input order.
C1_ResultsMatchInputOrder ==
  /\ bpc \in {"loop", "done"} =>
       /\ Len(results) = Min(i, Len(items))
       /\ \A k \in 1..Len(results) :
            /\ results[k] = calls[k]
            /\ IsSettled(results[k])
            /\ results[k].value = items[k]
  /\ bpc = "done" => Len(results) = Len(items)

\* a finished run of two batches in which a batch completed out of input order
C1_Witness ==
  /\ bpc = "done"
  /\ Len(items) > concurrentRequests
  /\ \E m, n \in 1..Len(settleOrder) :
       /\ m < n
       /\ settleOrder[m] > settleOrder[n]
       /\ calls[settleOrder[m]] # calls[settleOrder[n]]

\* C2: no invocation of a later chunk has started while an invocation of an
\* earlier chunk is unsettled, and at most `limit` invocations are in flight.
C2_BatchBarrier ==
  /\ Cardinality(Pending) <= concurrentRequests
  /\ \A j, k \in 1..Len(items) :
       (ChunkOf(j) < ChunkOf(k) /\ calls[k].status # "none") => IsSettled(calls[j])

\* a full second chunk is in flight
C2_Witness ==
  /\ concurrentRequests >= 2
  /\ Cardinality(Pending) = concurrentRequests
  /\ \E k \in Pending : ChunkOf(k) = 1

\* C3: a rejected invocation yields a rejected result for its own item only;
\* every other item of its chunk and of the later chunks is processed and gets
\* its own settled result, and processWithConcurrency itself never rejects.
C3_RejectionIsolated ==
  /\ bpc # "rejected"
  /\ bpc = "done" =>
       \A k \in 1..Len(items) :
         calls[k].status = "rejected" =>
           /\ k <= Len(results) /\ results[k].status = "rejected"
           /\ \A j \in (1..Len(items)) \ {k} :
                /\ IsSettled(calls[j])
                /\ j <= Len(results) /\ results[j].status = calls[j].status

\* the first item was rejected, its sibling and an item of a later chunk fulfilled
C3_Witness ==
  /\ bpc = "done"
  /\ concurrentRequests >= 2
  /\ Len(items) > concurrentRequests
  /\ calls[1].status = "rejected"
  /\ calls[2].status = "fulfilled"
  /\ calls[Len(items)].status = "fulfilled"

(***************************************************************************)
(* The file-backed ApiCache and BaseApiClient.fetchJson.                   *)
(* Time is counted in ticks.  A caller advances at the awaits of the code: *)
(* fs.stat, fs.readFile, fs.unlink, the throttle's delay, the GET,         *)
(* fs.mkdir and fs.writeFile.  Response bodies are JSON objects (the       *)
(* {data: ...} envelope every consumer of fetchJson dereferences), so a    *)
(* body is truthy and null is the only falsy value a lookup yields.        *)
(* Calls in flight at the same time are for different URLs, as the         *)
(* collectors issue them (one URL per route direction and per stop).       *)
(***************************************************************************)
TTL == 2

Interval == 1

RequestsPerSecond == 1

Bodies == {"body1", "body2"}

Max(a, b) == IF a > b THEN a ELSE b

\* `if (cachedData)`
Truthy(v) == v # Null

\* the looked-up value is ignored: the call always goes on to the network
IgnoresCached(v) == FALSE

\* `if (cachedData) return cachedData`
ReturnsCached(v) == Truthy(v)

\* every URL mapped to one cache file
CollidingCachePath(url) == "u1"

\* generateCacheKey + path.join: one file per URL (md5 of the URL)
CachePath(url) == url

\* the entry stays valid through age = ttl
IsFreshInclusive(mtime, t) == t - mtime <= TTL

\* the comparison of the freshness test flipped
IsFreshFlipped(mtime, t) == t - mtime > TTL

\* Date.now() - stats.mtime.getTime() < this.ttl
IsFresh(mtime, t) == t - mtime < TTL

\* cacheEntry = {url, data, timestamp: Date.now()}
CacheEntry(url, data, t) == [url |-> url, data |-> data, timestamp |-> t]

\* JSON.stringify(cacheEntry, null, 2)
Stringify(entry) == <<"json", entry>>

\* what an interrupted fs.writeFile leaves behind
Truncated == <<"partial">>

\* whether JSON.parse(data) succeeds
Parses(content) == Len(content) = 2 /\ content[1] = "json"

\* JSON.parse(data)
Parse(content) == content[2]

\* the set() of the cache lets the failure escape
SetPropagates(failed) == failed

\* set(): the catch logs the failure and swallows it
SetThrows(failed) == FALSE

\* history: the data of the unexpired, readable entry the cache holds for url
EntryOf(url) ==
  LET f == files[CachePath(url)]
  IN IF f.exists /\ Parses(f.content) /\ now - f.mtime < TTL
       THEN Parse(f.content).data ELSE Null

\* history: the last cache.set(url, v) completed before this lookup, and
\* whether the lookup comes before the TTL has elapsed since it
PriorSet(url) ==
  LET l == lastSet[url]
  IN [v |-> l.v, ok |-> l.ok, set |-> l.set, within |-> (l.set /\ now - l.at < TTL)]

Busy(url) == \E d \in Callers : fc[d].pc # "idle" /\ fc[d].url = url

AllIdle == \A d \in Callers : fc[d].pc = "idle"

InitFetch ==
  /\ now = 0
  /\ enabled \in BOOLEAN
  /\ files = [u \in Urls |-> NoFile]
  /\ fc = [c \in Callers |-> IdleCall]
  /\ currentTick = 0
  /\ activeCount = 0
  /\ lastSet = [u \in Urls |-> None]
  /\ ncalls = 0

\* this.throttle(fn)(): the throttle admits the call to a rate window and
\* delays it to the start of that window
ThrottleCall(c, rec) ==
  /\ IF now - currentTick > Interval
       THEN currentTick' = now /\ activeCount' = 1
       ELSE IF activeCount < RequestsPerSecond
         THEN currentTick' = currentTick /\ activeCount' = activeCount + 1
         ELSE currentTick' = currentTick + Interval /\ activeCount' = 1
  /\ fc' = [fc EXCEPT ![c] = [rec EXCEPT !.pc = "throttled",
                                          !.slots = @ + 1,
                                          !.runAt = Max(now, currentTick')]]

\* cache.get(url) has returned v
AfterGet(c, rec, v) ==
  IF rec.op = "get"
    THEN /\ fc' = [fc EXCEPT ![c] = [rec EXCEPT !.pc = "done",
                                                 !.outcome = "fulfilled",
                                                 !.result = v]]
         /\ UNCHANGED <<currentTick, activeCount>>
    ELSE IF ReturnsCached(v)
      THEN /\ fc' = [fc EXCEPT ![c] = [rec EXCEPT !.pc = "done",
                                                   !.cachedData = v,
                                                   !.outcome = "fulfilled",
                                                   !.result = v]]
           /\ UNCHANGED <<currentTick, activeCount>>
      ELSE ThrottleCall(c, [rec EXCEPT !.cachedData = v])

\* cache.set(url, data) has returned, or thrown into fetchJson's catch
AfterSet(c, rec, failed) ==
  fc' = [fc EXCEPT ![c] =
           IF SetThrows(failed)
             THEN [rec EXCEPT !.pc = "done", !.outcome = "rejected", !.runAt = 0,
                              !.result = "NetworkError", !.setFailed = failed]
             ELSE [rec EXCEPT !.pc = "done", !.outcome = "fulfilled", !.runAt = 0,
                              !.result = IF rec.op = "set" THEN Null ELSE rec.data,
                              !.setFailed = failed]]

\* fetchJson(url) is called: cache lookup first when the cache is enabled
FetchJson(c, url) ==
  /\ fc[c].pc = "idle"
  /\ ~Busy(url)
  /\ ncalls < MaxCalls
  /\ ncalls' = ncalls + 1
  /\ LET rec == [IdleCall EXCEPT !.op = "fetchJson", !.url = url]
     IN IF enabled
          THEN /\ fc' = [fc EXCEPT ![c] = [rec EXCEPT !.pc = "stat"]]
               /\ UNCHANGED <<currentTick, activeCount>>
          ELSE ThrottleCall(c, rec)
  /\ UNCHANGED <<now, enabled, files, lastSet>>
  /\ UNCHANGED otherThanFetch

\* cache.get(url) called on its own
CacheGet(c, url) ==
  /\ AllIdle
  /\ ncalls < MaxOps
  /\ ncalls' = ncalls + 1
  /\ LET rec == [IdleCall EXCEPT !.op = "get", !.url = url]
     IN fc' = [fc EXCEPT ![c] =
                 IF enabled THEN [rec EXCEPT !.pc = "stat"]
                 ELSE [rec EXCEPT !.pc = "done", !.outcome = "fulfilled"]]
  /\ UNCHANGED <<now, enabled, files, currentTick, activeCount, lastSet>>
  /\ UNCHANGED otherThanFetch

\* cache.set(url, v) called on its own
CacheSet(c, url, v) ==
  /\ AllIdle
  /\ ncalls < MaxOps
  /\ ncalls' = ncalls + 1
  /\ LET rec == [IdleCall EXCEPT !.op = "set", !.url = url, !.data = v]
     IN fc' = [fc EXCEPT ![c] =
                 IF enabled THEN [rec EXCEPT !.pc = "mkdir"]
                 ELSE [rec EXCEPT !.pc = "done", !.outcome = "fulfilled"]]
  /\ UNCHANGED <<now, enabled, files, currentTick, activeCount, lastSet>>
  /\ UNCHANGED otherThanFetch

\* cache.clear(): every .json file of the cache directory is removed
CacheClear(c) ==
  /\ AllIdle
  /\ ncalls < MaxOps
  /\ ncalls' = ncalls + 1
  /\ files' = [u \in Urls |-> NoFile]
  /\ lastSet' = [u \in Urls |-> None]
  /\ fc' = [fc EXCEPT ![c] = [IdleCall EXCEPT !.op = "clear", !.pc = "done",
                                              !.outcome = "fulfilled"]]
  /\ UNCHANGED <<now, enabled, currentTick, activeCount>>
  /\ UNCHANGED otherThanFetch

\* get(): fs.stat resolves or throws ENOENT; the freshness test
GetStat(c) ==
  /\ fc[c].pc = "stat"
  /\ LET f == files[CachePath(fc[c].url)]
         rec == [fc[c] EXCEPT !.seen = EntryOf(fc[c].url),
                              !.prior = PriorSet(fc[c].url)]
     IN IF ~f.exists
          THEN AfterGet(c, rec, Null)
          ELSE /\ fc' = [fc EXCEPT ![c] =
                           [rec EXCEPT !.pc = IF IsFresh(f.mtime, now)
                                                THEN "read" ELSE "unlink"]]
               /\ UNCHANGED <<currentTick, activeCount, ncalls>>
  /\ UNCHANGED <<now, enabled, files, lastSet, ncalls>>
  /\ UNCHANGED otherThanFetch

\* get(): fs.readFile and JSON.parse; a missing or corrupted file gives null
GetRead(c) ==
  /\ fc[c].pc = "read"
  /\ LET f == files[CachePath(fc[c].url)]
     IN IF f.exists /\ Parses(f.content)
          THEN AfterGet(c, fc[c], Parse(f.content).data)
          ELSE AfterGet(c, fc[c], Null)
  /\ UNCHANGED <<now, enabled, files, lastSet, ncalls>>
  /\ UNCHANGED otherThanFetch

\* get(): the expired entry is removed with fs.unlink, then null
GetUnlink(c) ==
  /\ fc[c].pc = "unlink"
  /\ files' = [files EXCEPT ![CachePath(fc[c].url)] = NoFile]
  /\ AfterGet(c, fc[c], Null)
  /\ UNCHANGED <<now, enabled, lastSet, ncalls>>
  /\ UNCHANGED otherThanFetch

\* the throttle's delay is over: this.client.get(url) is issued
RunThrottled(c) ==
  /\ fc[c].pc = "throttled"
  /\ now >= fc[c].runAt
  /\ fc' = [fc EXCEPT ![c].pc = "request", ![c].net = @ + 1, ![c].runAt = 0]
  /\ UNCHANGED <<now, enabled, files, currentTick, activeCount, lastSet, ncalls>>
  /\ UNCHANGED otherThanFetch

\* the GET succeeds with body b; cache.set(url, data) when the cache is enabled
Respond(c, b) ==
  /\ fc[c].pc = "request"
  /\ fc' = [fc EXCEPT ![c] =
              IF enabled
                THEN [@ EXCEPT !.pc = "mkdir", !.data = b]
                ELSE [@ EXCEPT !.pc = "done", !.data = b,
                               !.outcome = "fulfilled", !.result = b]]
  /\ UNCHANGED <<now, enabled, files, currentTick, activeCount, lastSet, ncalls>>
  /\ UNCHANGED otherThanFetch

\* the GET fails for good: fetchJson throws NetworkError
RequestFails(c) ==
  /\ fc[c].pc = "request"
  /\ fc' = [fc EXCEPT ![c].pc = "done", ![c].outcome = "rejected",
                      ![c].result = "NetworkError"]
  /\ UNCHANGED <<now, enabled, files, currentTick, activeCount, lastSet, ncalls>>
  /\ UNCHANGED otherThanFetch

\* set(): fs.mkdir(cacheDir, {recursive: true}) resolves or fails
SetMkdir(c, ok) ==
  /\ fc[c].pc = "mkdir"
  /\ IF ok
       THEN /\ fc' = [fc EXCEPT ![c].pc = "write", ![c].runAt = now]
            /\ UNCHANGED lastSet
       ELSE /\ AfterSet(c, fc[c], TRUE)
            /\ lastSet' = [lastSet EXCEPT ![fc[c].url] =
                             [v |-> fc[c].data, at |-> now, ok |-> FALSE, set |-> TRUE]]
  /\ UNCHANGED <<now, enabled, files, currentTick, activeCount, ncalls>>
  /\ UNCHANGED otherThanFetch

\* set(): fs.writeFile resolves, fails leaving the file alone, or fails
\* leaving a truncated file
SetWrite(c, how) ==
  /\ fc[c].pc = "write"
  /\ files' =
       [files EXCEPT ![CachePath(fc[c].url)] =
          CASE how = "ok" ->
                 [exists |-> TRUE, mtime |-> now,
                  content |-> Stringify(CacheEntry(fc[c].url, fc[c].data, fc[c].runAt))]
            [] how = "partial" ->
                 [exists |-> TRUE, mtime |-> now, content |-> Truncated]
            [] OTHER -> @]
  /\ AfterSet(c, fc[c], how # "ok")
  /\ lastSet' = [lastSet EXCEPT ![fc[c].url] =
                   [v |-> fc[c].data, at |-> now, ok |-> (how = "ok"), set |-> TRUE]]
  /\ UNCHANGED <<now, enabled, currentTick, activeCount, ncalls>>
  /\ UNCHANGED otherThanFetch

\* the caller takes the outcome of its call
Finish(c) ==
  /\ fc[c].pc = "done"
  /\ fc' = [fc EXCEPT ![c] = IdleCall]
  /\ UNCHANGED <<now, enabled, files, currentTick, activeCount, lastSet, ncalls>>
  /\ UNCHANGED otherThanFetch

\* time passes
Tick ==
  /\ now < MaxTime
  /\ now' = now + 1
  /\ UNCHANGED <<enabled, files, fc, currentTick, activeCount, lastSet, ncalls>>
  /\ UNCHANGED otherThanFetch

NextFetch ==
  \/ \E c \in Callers, u \in Urls : FetchJson(c, u)
  \/ \E c \in Callers : GetStat(c)
  \/ \E c \in Callers : GetRead(c)
  \/ \E c \in Callers : GetUnlink(c)
  \/ \E c \in Callers : RunThrottled(c)
  \/ \E c \in Callers, b \in Bodies : Respond(c, b)
  \/ \E c \in Callers : RequestFails(c)
  \/ \E c \in Callers, ok \in BOOLEAN : SetMkdir(c, ok)
  \/ \E c \in Callers, how \in {"ok", "fail", "partial"} : SetWrite(c, how)
  \/ \E c \in Callers : Finish(c)
  \/ Tick

FetchInit == InitFetch /\ IdleBatch /\ IdleLimiter /\ IdleRouteStops /\ IdleStopDetails /\ IdleCompare /\ IdleOptimized /\ IdleEnrich /\ IdleEnrichRoute /\ IdleNearby /\ IdleSaveAllRoutes /\ IdleService /\ IdleProcess /\ IdleBulk /\ IdleRun /\ IdleKy /\ IdleRequests

SpecFetch == FetchInit /\ [][NextFetch]_vars

FetchCalls == {c \in Callers : fc[c].op = "fetchJson"}

\* C4: with the cache enabled, a fetchJson(url) whose lookup finds an unexpired
\* entry for the URL returns the cached value, issues no network request and
\* takes no slot of the rate limiter.
C4_CacheHitSkipsNetwork ==
  \A c \in FetchCalls :
    (enabled /\ fc[c].seen # Null) =>
      /\ fc[c].net = 0
      /\ fc[c].slots = 0
      /\ fc[c].pc \in {"read", "done"}
      /\ fc[c].pc = "done" =>
           fc[c].outcome = "fulfilled" /\ fc[c].result = fc[c].seen

\* a fetchJson call that returned the entry stored by an earlier call
C4_Witness ==
  \E c \in FetchCalls :
    /\ fc[c].pc = "done"
    /\ fc[c].seen \in Bodies
    /\ fc[c].result = fc[c].seen
    /\ lastSet[fc[c].url].ok

\* C5 as stated: after a fetchJson(url) that missed the cache and whose GET
\* succeeded (the only calls that run cache.set), a following fetchJson(url)
\* within the TTL returns the same body and issues no network request.
C5_AsStated ==
  \A c \in FetchCalls :
    (fc[c].pc = "done" /\ fc[c].prior.set /\ fc[c].prior.within) =>
      /\ fc[c].outcome = "fulfilled"
      /\ fc[c].result = fc[c].prior.v
      /\ fc[c].net = 0

\* C5 amended: cache.set(url, body) has completed before fetchJson returns; when
\* its write succeeded the entry for the URL holds the body at the return, and a
\* following fetchJson(url) within the TTL returns the same body and issues no
\* network request.  A failed write is swallowed and leaves the body unstored.
C5_StoredBeforeReturn ==
  \A c \in FetchCalls :
    /\ (fc[c].pc = "done" /\ fc[c].data # Null /\ enabled) =>
         /\ lastSet[fc[c].url].set /\ lastSet[fc[c].url].v = fc[c].data
         /\ ~fc[c].setFailed =>
              LET f == files[CachePath(fc[c].url)]
              IN /\ f.exists /\ Parses(f.content)
                 /\ Parse(f.content).data = fc[c].data
                 /\ Parse(f.content).url = fc[c].url
    /\ (fc[c].pc = "done" /\ fc[c].prior.set /\ fc[c].prior.ok /\ fc[c].prior.within) =>
         /\ fc[c].outcome = "fulfilled"
         /\ fc[c].result = fc[c].prior.v
         /\ fc[c].net = 0

\* a fetchJson call served, within the TTL, the body an earlier call stored
C5_Witness ==
  \E c \in FetchCalls :
    /\ fc[c].pc = "done"
    /\ fc[c].prior.set /\ fc[c].prior.ok /\ fc[c].prior.within
    /\ fc[c].result = fc[c].prior.v
    /\ fc[c].net = 0

\* C7: ApiCache.set never throws to its caller: when fs.mkdir or fs.writeFile
\* fails, fetchJson still returns the fetched body.
C7_SetFailureSwallowed ==
  \A c \in FetchCalls :
    (fc[c].pc = "done" /\ fc[c].data # Null) =>
      /\ fc[c].outcome = "fulfilled"
      /\ fc[c].result = fc[c].data

\* a fetchJson call returned the body although the cache write failed
C7_Witness ==
  \E c \in FetchCalls :
    /\ fc[c].pc = "done"
    /\ fc[c].setFailed
    /\ fc[c].data \in Bodies
    /\ fc[c].result = fc[c].data
    /\ ~files[CachePath(fc[c].url)].exists

NextCache ==
  \/ \E u \in Urls : CacheGet(1, u)
  \/ \E u \in Urls, v \in Bodies : CacheSet(1, u, v)
  \/ CacheClear(1)
  \/ \E c \in Callers : GetStat(c)
  \/ \E c \in Callers : GetRead(c)
  \/ \E c \in Callers : GetUnlink(c)
  \/ \E c \in Callers, ok \in BOOLEAN : SetMkdir(c, ok)
  \/ \E c \in Callers, how \in {"ok", "fail", "partial"} : SetWrite(c, how)
  \/ \E c \in Callers : Finish(c)
  \/ Tick

SpecCache == FetchInit /\ [][NextCache]_vars

GetCalls == {c \in Callers : fc[c].op = "get" /\ fc[c].pc = "done"}

REQUESTS_PER_SECOND == 3

TokenScale == 2

\* one token, in units
OneToken == TokenScale

\* this.maxTokens = requestsPerSecond, in units
maxTokens == REQUESTS_PER_SECOND * TokenScale

\* Math.min(this.maxTokens, this.tokens + secondsSinceLastRefill * this.refillRate)
Refilled == Min(maxTokens, tokens + (now - lastRefill))

\* waitTime = (1 - this.tokens) / this.refillRate * 1000, in ticks
WaitTime(t) == OneToken - t

\* a delay whose promise is never resolved
NeverFires(p) == FALSE

\* delay(ms): setTimeout resolves the promise once ms have passed
TimerFired(p) == now >= wakeAt[p]

InitLimiter ==
  /\ tokens = maxTokens
  /\ lastRefill = 0
  /\ wpc = [p \in Waiters |-> "idle"]
  /\ wakeAt = [p \in Waiters |-> 0]
  /\ via = [p \in Waiters |-> "none"]
  /\ admitted = 0
  /\ started = 0

\* wait() up to its await: refill, then consume a token and return, or
\* suspend in delay(waitTime)
WaitCall(p) ==
  /\ wpc[p] = "idle"
  /\ started < MaxWaits
  /\ now + OneToken <= MaxTime
  /\ started' = started + 1
  /\ lastRefill' = now
  /\ IF Refilled < OneToken
       THEN /\ tokens' = Refilled
            /\ wpc' = [wpc EXCEPT ![p] = "delay"]
            /\ wakeAt' = [wakeAt EXCEPT ![p] = now + WaitTime(Refilled)]
            /\ UNCHANGED <<via, admitted>>
       ELSE /\ tokens' = Refilled - OneToken
            /\ via' = [via EXCEPT ![p] = "direct"]
            /\ admitted' = admitted + 1
            /\ UNCHANGED <<wpc, wakeAt>>
  /\ UNCHANGED now
  /\ UNCHANGED otherThanLimiter

\* wait() after its await: this.tokens = 1; this.lastRefill = Date.now();
\* this.tokens -= 1
WaitResume(p) ==
  /\ wpc[p] = "delay"
  /\ TimerFired(p)
  /\ tokens' = OneToken - OneToken
  /\ lastRefill' = now
  /\ wpc' = [wpc EXCEPT ![p] = "idle"]
  /\ via' = [via EXCEPT ![p] = "delay"]
  /\ admitted' = admitted + 1
  /\ UNCHANGED <<wakeAt, started, now>>
  /\ UNCHANGED otherThanLimiter

NextLimiter ==
  \/ \E p \in Waiters : WaitCall(p)
  \/ \E p \in Waiters : WaitResume(p)
  \/ Tick

LimiterInit == InitLimiter /\ IdleBatch /\ IdleFetch /\ IdleRouteStops /\ IdleStopDetails /\ IdleCompare /\ IdleOptimized /\ IdleEnrich /\ IdleEnrichRoute /\ IdleNearby /\ IdleSaveAllRoutes /\ IdleService /\ IdleProcess /\ IdleBulk /\ IdleRun /\ IdleKy /\ IdleRequests

SpecLimiter == LimiterInit /\ [][NextLimiter]_vars

\* timers fire and time passes
SpecLimiterFair ==
  /\ LimiterInit
  /\ [][NextLimiter]_vars
  /\ WF_vars(Tick)
  /\ \A p \in Waiters : WF_vars(WaitResume(p))

\* C8: by elapsed time t the limiter has admitted at most R + R*t calls (the
\* capacity of the bucket plus its continuous refill), in units of
\* 1/TokenScale token.
C8_RateCeiling == admitted * TokenScale <= maxTokens + now

\* C9: every wait() that suspends eventually returns, provided timers fire.
C9_WaitReturns == \A p \in Waiters : (wpc[p] = "delay") ~> (wpc[p] = "idle")

\* a wait() returned after having been suspended while another caller was
\* suspended too
C9_Witness ==
  \E p, q \in Waiters :
    /\ p # q
    /\ via[p] = "delay" /\ wpc[p] = "idle"
    /\ wpc[q] = "delay"

(***************************************************************************)
(* CTBDataCollector.collectRouteStops: the inbound and the outbound fetch  *)
(* run as a pair under Promise.allSettled.  A fulfilled fetch carries the  *)
(* response envelope, whose data field is the list of stop associations or *)
(* is absent.                                                              *)
(***************************************************************************)
RouteIds == {"1A", "2"}

StopIds == {"S1", "S2", "S3"}

StopLists == UNION {[1..n -> StopIds] : n \in 0..MaxStops}

\* the settled results a direction's fetchJson can have
LegOutcomes ==
  {[status |-> "rejected", hasData |-> FALSE, data |-> <<>>]}
    \cup {[status |-> "fulfilled", hasData |-> FALSE, data |-> <<>>]}
    \cup {[status |-> "fulfilled", hasData |-> TRUE, data |-> l] : l \in StopLists}

\* X.status === 'fulfilled' ? X.value.data || [] : []
LegStops(leg) ==
  IF leg.status = "fulfilled"
    THEN (IF leg.hasData THEN leg.data ELSE <<>>)
    ELSE <<>>

\* the flag raised only when both directions failed
BothRejected(inb, outb) == inb.status = "rejected" /\ outb.status = "rejected"

\* inboundData.status === 'rejected' || outboundData.status === 'rejected'
ErrorFlag(inb, outb) == inb.status = "rejected" \/ outb.status = "rejected"

InitRouteStops ==
  /\ rspc = "idle"
  /\ route = Null
  /\ legs = [d \in Directions |-> [status |-> "none", hasData |-> FALSE, data |-> <<>>]]
  /\ composite = NoComposite
  /\ rsOutcome = Null

\* collectRouteStops(route): both fetchJson calls are issued
CollectRouteStops(r) ==
  /\ rspc = "idle"
  /\ route' = r
  /\ legs' = [d \in Directions |-> [status |-> "pending", hasData |-> FALSE, data |-> <<>>]]
  /\ composite' = NoComposite
  /\ rsOutcome' = Null
  /\ rspc' = "await"
  /\ UNCHANGED otherThanRouteStops

\* the fetchJson of one direction settles
LegSettles(d, o) ==
  /\ rspc = "await"
  /\ legs[d].status = "pending"
  /\ legs' = [legs EXCEPT ![d] = o]
  /\ UNCHANGED <<rspc, route, composite, rsOutcome>>
  /\ UNCHANGED otherThanRouteStops

\* Promise.allSettled resolves: the composite result is returned.  The
\* aggregate itself never rejects and a fulfilled value is an envelope
\* object, so nothing in the try block throws and the catch clause is not
\* entered.
ReturnComposite ==
  /\ rspc = "await"
  /\ \A d \in Directions : legs[d].status \in {"fulfilled", "rejected"}
  /\ composite' = [route |-> route,
                   inbound |-> LegStops(legs["inbound"]),
                   outbound |-> LegStops(legs["outbound"]),
                   error |-> ErrorFlag(legs["inbound"], legs["outbound"])]
  /\ rsOutcome' = "fulfilled"
  /\ rspc' = "done"
  /\ UNCHANGED <<route, legs>>
  /\ UNCHANGED otherThanRouteStops

\* the caller takes the result; the collector is ready for the next route
NextRoute ==
  /\ rspc = "done"
  /\ rspc' = "idle"
  /\ UNCHANGED <<route, legs, composite, rsOutcome>>
  /\ UNCHANGED otherThanRouteStops

NextRouteStops ==
  \/ \E r \in RouteIds : CollectRouteStops(r)
  \/ \E d \in Directions, o \in LegOutcomes : LegSettles(d, o)
  \/ ReturnComposite
  \/ NextRoute

RouteStopsInit == InitRouteStops /\ IdleBatch /\ IdleFetch /\ IdleLimiter /\ IdleStopDetails /\ IdleCompare /\ IdleOptimized /\ IdleEnrich /\ IdleEnrichRoute /\ IdleNearby /\ IdleSaveAllRoutes /\ IdleService /\ IdleProcess /\ IdleBulk /\ IdleRun /\ IdleKy /\ IdleRequests

SpecRouteStops == RouteStopsInit /\ [][NextRouteStops]_vars

Other(d) == IF d = "inbound" THEN "outbound" ELSE "inbound"

\* C10: collectRouteStops never rejects; when exactly one direction's fetch
\* fails, that direction is an empty list, error is true and the other
\* direction holds the stops its fetch returned; error is false only when
\* both fetches succeeded.
C10_PartialRouteStops ==
  /\ rsOutcome # "rejected"
  /\ rspc = "done" =>
       /\ rsOutcome = "fulfilled"
       /\ composite.route = route
       /\ \A d \in Directions :
            (legs[d].status = "rejected" /\ legs[Other(d)].status = "fulfilled") =>
              /\ composite[d] = <<>>
              /\ composite.error = TRUE
              /\ composite[Other(d)] =
                   (IF legs[Other(d)].hasData THEN legs[Other(d)].data ELSE <<>>)
       /\ composite.error = FALSE =>
            \A d \in Directions : legs[d].status = "fulfilled"

\* the inbound fetch failed and the outbound fetch returned stops
C10_Witness ==
  /\ rspc = "done"
  /\ legs["inbound"].status = "rejected"
  /\ legs["outbound"].status = "fulfilled"
  /\ composite.inbound = <<>>
  /\ Len(composite.outbound) = MaxStops
  /\ composite.error

(***************************************************************************)
(* CTBDataCollector.collectStopDetails: one fetchJson of the stop          *)
(* endpoint inside a try/catch.  A fulfilled fetch carries the response    *)
(* envelope, whose data field is the stop record or is absent.             *)
(***************************************************************************)
StopNames == {"Alpha", "Beta"}

Coords == {1, 2, 3}

\* the stop record the stop endpoint returns for a stop
StopPayloads(s) ==
  {[stop |-> s, name_en |-> n, lat |-> la, long |-> lo] :
     n \in StopNames, la \in Coords, lo \in Coords}

\* the settled results the fetchJson of a stop can have
StopFetchOutcomes(s) ==
  {[status |-> "rejected", hasData |-> FALSE, data |-> NullData]}
    \cup {[status |-> "fulfilled", hasData |-> FALSE, data |-> NullData]}
    \cup {[status |-> "fulfilled", hasData |-> TRUE, data |-> d] : d \in StopPayloads(s)}

\* a catch clause that rethrows
Rethrows(o) == o.status = "rejected"

\* the catch clause of collectStopDetails returns, it does not throw
CatchThrows(o) == FALSE

\* data.data || null
DataOrNull(o) == IF o.hasData THEN o.data ELSE NullData

\* the value collectStopDetails(stopId) resolves to for a settled fetch
StopDetailsResult(s, o) ==
  IF o.status = "fulfilled"
    THEN [stopId |-> s, data |-> DataOrNull(o), error |-> FALSE]
    ELSE [stopId |-> s, data |-> NullData, error |-> TRUE]

InitStopDetails ==
  /\ sdpc = "idle"
  /\ sdStop = Null
  /\ sdFetch = NoStopFetch
  /\ sdResult = NoStopResult
  /\ sdOutcome = Null

\* collectStopDetails(stopId): the fetchJson call is issued
CollectStopDetails(s) ==
  /\ sdpc = "idle"
  /\ sdStop' = s
  /\ sdFetch' = [status |-> "pending", hasData |-> FALSE, data |-> NullData]
  /\ sdResult' = NoStopResult
  /\ sdOutcome' = Null
  /\ sdpc' = "await"
  /\ UNCHANGED otherThanStopDetails

\* the fetchJson call settles
StopFetchSettles(o) ==
  /\ sdpc = "await"
  /\ sdFetch' = o
  /\ sdpc' = "settled"
  /\ UNCHANGED <<sdStop, sdResult, sdOutcome>>
  /\ UNCHANGED otherThanStopDetails

\* the await resumes: the try block returns or the catch clause runs
ReturnStopDetails ==
  /\ sdpc = "settled"
  /\ IF CatchThrows(sdFetch)
       THEN /\ sdOutcome' = "rejected"
            /\ sdResult' = NoStopResult
       ELSE /\ sdOutcome' = "fulfilled"
            /\ sdResult' = StopDetailsResult(sdStop, sdFetch)
  /\ sdpc' = "done"
  /\ UNCHANGED <<sdStop, sdFetch>>
  /\ UNCHANGED otherThanStopDetails

\* the caller takes the result; the collector is ready for the next stop
NextStop ==
  /\ sdpc = "done"
  /\ sdpc' = "idle"
  /\ UNCHANGED <<sdStop, sdFetch, sdResult, sdOutcome>>
  /\ UNCHANGED otherThanStopDetails

NextStopDetails ==
  \/ \E s \in StopIds : CollectStopDetails(s)
  \/ \E o \in StopFetchOutcomes(sdStop) : StopFetchSettles(o)
  \/ ReturnStopDetails
  \/ NextStop

StopDetailsInit == InitStopDetails /\ IdleBatch /\ IdleFetch /\ IdleLimiter /\ IdleRouteStops /\ IdleCompare /\ IdleOptimized /\ IdleEnrich /\ IdleEnrichRoute /\ IdleNearby /\ IdleSaveAllRoutes /\ IdleService /\ IdleProcess /\ IdleBulk /\ IdleRun /\ IdleKy /\ IdleRequests

SpecStopDetails == StopDetailsInit /\ [][NextStopDetails]_vars

\* C11: collectStopDetails never rejects; a failed fetch gives
\* {stopId, data: null, error: true}; a successful fetch gives error false
\* and data equal to the response payload, null when the payload is absent.
C11_StopDetailsNeverRejects ==
  /\ sdOutcome # "rejected"
  /\ sdpc = "done" =>
       /\ sdOutcome = "fulfilled"
       /\ sdResult.stopId = sdStop
       /\ sdFetch.status = "rejected" =>
            (sdResult.data = NullData /\ sdResult.error = TRUE)
       /\ sdFetch.status = "fulfilled" =>
            /\ sdResult.error = FALSE
            /\ sdFetch.hasData => sdResult.data = sdFetch.data
            /\ ~sdFetch.hasData => sdResult.data = NullData

\* a call whose fetch failed has returned the tagged failure result
C11_Witness ==
  /\ sdpc = "done"
  /\ sdFetch.status = "rejected"
  /\ sdResult = [stopId |-> sdStop, data |-> NullData, error |-> TRUE]

(***************************************************************************)
(* compareRoutes (BaseDataCollector and CTBDataCollector): equality of two *)
(* route arrays through sorted copies.  The arrays hold route identifier   *)
(* strings and are built from Sets, so they hold no identifier twice.      *)
(***************************************************************************)
RouteNames == {"1", "10", "2"}

\* the order of Array.prototype.sort without a comparator: by code units
CodeUnitRank(r) == CASE r = "1" -> 1 [] r = "10" -> 2 [] r = "2" -> 3

RECURSIVE InsertByCodeUnits(_, _)
InsertByCodeUnits(r, sorted) ==
  IF sorted = <<>> THEN <<r>>
  ELSE IF CodeUnitRank(r) < CodeUnitRank(Head(sorted))
    THEN <<r>> \o sorted
    ELSE <<Head(sorted)>> \o InsertByCodeUnits(r, Tail(sorted))

\* a copy that is left in the order of the argument
Unsorted(list) == list

\* [...list].sort()
RECURSIVE SortedCopy(_)
SortedCopy(list) ==
  IF list = <<>> THEN <<>>
  ELSE InsertByCodeUnits(list[Len(list)], SortedCopy(SubSeq(list, 1, Len(list) - 1)))

\* compareRoutes(a, b)
CompareRoutes(a, b) ==
  IF ~a.present \/ ~b.present THEN FALSE
  ELSE IF Len(a.list) # Len(b.list) THEN FALSE
  ELSE \A k \in 1..Len(a.list) : SortedCopy(a.list)[k] = SortedCopy(b.list)[k]

\* the arrays a caller can pass: absent, or identifiers without repetition
RouteLists ==
  {l \in UNION {[1..n -> RouteNames] : n \in 0..MaxRoutes} :
     \A j, k \in 1..Len(l) : j # k => l[j] # l[k]}

RouteArgs == {Absent} \cup {[present |-> TRUE, list |-> l] : l \in RouteLists}

InitCompare ==
  /\ cmppc = "idle"
  /\ existingRoutes = Absent
  /\ newRoutes = Absent
  /\ passedRoutes = <<Absent, Absent>>
  /\ cmpResult = FALSE
  /\ cmpSwapped = FALSE

\* one call of compareRoutes(a, b) and one of compareRoutes(b, a); the sort
\* works on spread copies, the arguments keep their order
CompareCall(a, b) ==
  /\ cmppc = "idle"
  /\ passedRoutes' = <<a, b>>
  /\ cmpResult' = CompareRoutes(a, b)
  /\ cmpSwapped' = CompareRoutes(b, a)
  /\ existingRoutes' = a
  /\ newRoutes' = b
  /\ cmppc' = "done"
  /\ UNCHANGED otherThanCompare

\* the caller has used the result; the next comparison can be made
CompareDone ==
  /\ cmppc = "done"
  /\ cmppc' = "idle"
  /\ UNCHANGED <<existingRoutes, newRoutes, passedRoutes, cmpResult, cmpSwapped>>
  /\ UNCHANGED otherThanCompare

NextCompare ==
  \/ \E a \in RouteArgs, b \in RouteArgs : CompareCall(a, b)
  \/ CompareDone

CompareInit == InitCompare /\ IdleBatch /\ IdleFetch /\ IdleLimiter /\ IdleRouteStops /\ IdleStopDetails /\ IdleOptimized /\ IdleEnrich /\ IdleEnrichRoute /\ IdleNearby /\ IdleSaveAllRoutes /\ IdleService /\ IdleProcess /\ IdleBulk /\ IdleRun /\ IdleKy /\ IdleRequests

SpecCompare == CompareInit /\ [][NextCompare]_vars

Members(arg) == {arg.list[k] : k \in 1..Len(arg.list)}

\* C14: compareRoutes(a, b) is true exactly when both arrays are present and
\* hold the same set of route identifiers, in any order; it is symmetric and
\* leaves both arguments as they were.
C14_CompareRoutesSetEquality ==
  cmppc = "done" =>
    /\ cmpResult = (/\ passedRoutes[1].present
                    /\ passedRoutes[2].present
                    /\ Members(passedRoutes[1]) = Members(passedRoutes[2]))
    /\ cmpSwapped = cmpResult
    /\ existingRoutes = passedRoutes[1]
    /\ newRoutes = passedRoutes[2]

\* two arrays with the same identifiers in different orders compared equal
C14_Witness ==
  /\ cmppc = "done"
  /\ cmpResult
  /\ Len(existingRoutes.list) = MaxRoutes
  /\ existingRoutes.list # newRoutes.list

(***************************************************************************)
(* CTBDataCollector.collectOptimizedStopDetails with fetchExistingAllStops:*)
(* the published allstops snapshot is fetched, each requested stop is      *)
(* either reused from the snapshot or queued for a fresh fetch, the queued *)
(* stops go through collectAllStopDetails, and both lists are combined.    *)
(***************************************************************************)
\* the stopIds a caller passes: Object.keys of the map, so without repetition
StopIdLists ==
  {l \in UNION {[1..n -> StopIds] : n \in 0..MaxStops} :
     \A j, k \in 1..Len(l) : j # k => l[j] # l[k]}

InList(s, l) == \E k \in 1..Len(l) : l[k] = s

\* the entries of stopRoutesMap: no entry, or the stop's current routes
MapEntries ==
  {Absent} \cup {[present |-> TRUE, list |-> l] : l \in {<<"1", "2">>, <<"2", "1">>}}

\* the snapshot has no record for the stop
NoRecord == [exists |-> FALSE, routes |-> Absent]

\* the records of the snapshot: with or without a routes field
SnapshotRecords ==
  {[exists |-> TRUE, routes |-> r] :
     r \in {Absent} \cup {[present |-> TRUE, list |-> l] : l \in {<<>>, <<"1">>, <<"2", "1">>}}}

\* the {} that fetchExistingAllStops returns from its catch clause
EmptySnapshot == [s \in StopIds |-> NoRecord]

\* a catch clause that rethrows
SnapshotRethrows(status) == status = "rejected"

\* the catch clause of fetchExistingAllStops returns {}, it does not throw
SnapshotCatchThrows(status) == FALSE

\* stopRoutesMap[stopId] || []
CurrentRoutes(s) ==
  IF stopRoutesMap[s].present THEN stopRoutesMap[s] ELSE [present |-> TRUE, list |-> <<>>]

\* reuse of every stop the snapshot has a record for
AlwaysUnchanged(existingStop, currentRoutes) == TRUE

\* this.compareRoutes(existingStop.routes, currentRoutes)
RoutesUnchanged(existingStop, currentRoutes) ==
  CompareRoutes(existingStop.routes, currentRoutes)

\* the condition of the analysis loop for using the snapshot record
UsesSnapshot(s) ==
  /\ existingAllStops[s].exists
  /\ RoutesUnchanged(existingAllStops[s], CurrentRoutes(s))

CachedResult(s) ==
  [stopId |-> s, data |-> existingAllStops[s], error |-> FALSE, fromCache |-> TRUE]

\* the settled entry itself is spread: stopId then reads as undefined
SpreadsSettledEntry(entry) ==
  [status |-> entry.status, value |-> entry.value, stopId |-> "undefined",
   fromCache |-> FALSE]

\* ...(result.value || result), fromCache: false
FreshResult(entry) ==
  [stopId |-> entry.value.stopId, data |-> entry.value.data,
   error |-> entry.value.error, fromCache |-> FALSE]

\* the outcomes a stop-detail fetch has in this specification
OptFetchOutcomes(s) ==
  {o \in StopFetchOutcomes(s) :
     /\ o.status = "fulfilled" => o.hasData
     /\ o.hasData => (o.data.name_en = "Alpha" /\ o.data.lat = 1 /\ o.data.long = 1)}

InitOptimized ==
  /\ optpc = "idle"
  /\ stopIds = <<>>
  /\ stopRoutesMap = <<>>
  /\ snapshotFetch = "none"
  /\ existingAllStops = <<>>
  /\ stopsToFetch = <<>>
  /\ stopsFromCache = <<>>
  /\ fetchResults = <<>>
  /\ issued = <<>>
  /\ allResults = <<>>
  /\ optOutcome = Null

\* collectOptimizedStopDetails(stopIds, stopRoutesMap): the snapshot fetch
\* is issued
CollectOptimizedStopDetails(l, m) ==
  /\ optpc = "idle"
  /\ \A s \in StopIds : ~InList(s, l) => m[s] = Absent
  /\ stopIds' = l
  /\ stopRoutesMap' = m
  /\ snapshotFetch' = "pending"
  /\ existingAllStops' = <<>>
  /\ stopsToFetch' = <<>>
  /\ stopsFromCache' = <<>>
  /\ fetchResults' = <<>>
  /\ issued' = <<>>
  /\ allResults' = <<>>
  /\ optOutcome' = Null
  /\ optpc' = "snapshot"
  /\ UNCHANGED otherThanOptimized

\* fetchExistingAllStops settles: the snapshot, or {} from its catch clause
FetchExistingAllStops(status, snap) ==
  /\ optpc = "snapshot"
  /\ \A s \in StopIds : ~InList(s, stopIds) => snap[s] = NoRecord
  /\ status = "rejected" => snap = EmptySnapshot
  /\ snapshotFetch' = status
  /\ IF SnapshotCatchThrows(status)
       THEN /\ optOutcome' = "rejected"
            /\ optpc' = "done"
            /\ UNCHANGED existingAllStops
       ELSE /\ existingAllStops' = snap
            /\ optpc' = "analyze"
            /\ UNCHANGED optOutcome
  /\ UNCHANGED <<stopIds, stopRoutesMap, stopsToFetch, stopsFromCache,
                 fetchResults, issued, allResults>>
  /\ UNCHANGED otherThanOptimized

\* step 2: the loop over stopIds fills stopsFromCache and stopsToFetch
AnalyzeStops ==
  /\ optpc = "analyze"
  /\ LET reused == SelectSeq(stopIds, LAMBDA s : UsesSnapshot(s))
         queued == SelectSeq(stopIds, LAMBDA s : ~UsesSnapshot(s))
     IN  /\ stopsFromCache' = [k \in 1..Len(reused) |-> CachedResult(reused[k])]
         /\ stopsToFetch' = queued
         /\ optpc' = IF Len(queued) > 0 THEN "fetch" ELSE "combine"
  /\ UNCHANGED <<stopIds, stopRoutesMap, snapshotFetch, existingAllStops,
                 fetchResults, issued, allResults, optOutcome>>
  /\ UNCHANGED otherThanOptimized

\* step 3: collectAllStopDetails(stopsToFetch); the collectStopDetails call
\* of the next queued stop is made and settles
FetchQueuedStop(o) ==
  /\ optpc = "fetch"
  /\ LET s == stopsToFetch[Len(fetchResults) + 1]
     IN  /\ issued' = Append(issued, s)
         /\ fetchResults' =
              Append(fetchResults,
                     [status |-> "fulfilled", value |-> StopDetailsResult(s, o)])
  /\ optpc' = IF Len(fetchResults) + 1 = Len(stopsToFetch) THEN "combine" ELSE "fetch"
  /\ UNCHANGED <<stopIds, stopRoutesMap, snapshotFetch, existingAllStops,
                 stopsToFetch, stopsFromCache, allResults, optOutcome>>
  /\ UNCHANGED otherThanOptimized

\* step 4: the cached and the fresh results are combined and returned
CombineResults ==
  /\ optpc = "combine"
  /\ allResults' =
       stopsFromCache \o [k \in 1..Len(fetchResults) |-> FreshResult(fetchResults[k])]
  /\ optOutcome' = "fulfilled"
  /\ optpc' = "done"
  /\ UNCHANGED <<stopIds, stopRoutesMap, snapshotFetch, existingAllStops,
                 stopsToFetch, stopsFromCache, fetchResults, issued>>
  /\ UNCHANGED otherThanOptimized

\* the caller takes the results; the collector is ready for the next run
OptimizedDone ==
  /\ optpc = "done"
  /\ optpc' = "idle"
  /\ stopIds' = <<>>
  /\ stopRoutesMap' = <<>>
  /\ snapshotFetch' = "none"
  /\ existingAllStops' = <<>>
  /\ stopsToFetch' = <<>>
  /\ stopsFromCache' = <<>>
  /\ fetchResults' = <<>>
  /\ issued' = <<>>
  /\ allResults' = <<>>
  /\ optOutcome' = Null
  /\ UNCHANGED otherThanOptimized

NextOptimized ==
  \/ /\ optpc = "idle"
     /\ \E l \in StopIdLists, m \in [StopIds -> MapEntries] : CollectOptimizedStopDetails(l, m)
  \/ /\ optpc = "snapshot"
     /\ \E snap \in [StopIds -> {NoRecord} \cup SnapshotRecords] :
          FetchExistingAllStops("fulfilled", snap)
  \/ FetchExistingAllStops("rejected", EmptySnapshot)
  \/ AnalyzeStops
  \/ /\ optpc = "fetch"
     /\ \E o \in OptFetchOutcomes(stopsToFetch[Len(fetchResults) + 1]) : FetchQueuedStop(o)
  \/ CombineResults
  \/ OptimizedDone

OptimizedInit == InitOptimized /\ IdleBatch /\ IdleFetch /\ IdleLimiter /\ IdleRouteStops /\ IdleStopDetails /\ IdleCompare /\ IdleEnrich /\ IdleEnrichRoute /\ IdleNearby /\ IdleSaveAllRoutes /\ IdleService /\ IdleProcess /\ IdleBulk /\ IdleRun /\ IdleKy /\ IdleRequests

SpecOptimized == OptimizedInit /\ [][NextOptimized]_vars

\* the set of routes stopRoutesMap holds for a stop (none without an entry)
CurrentRouteSet(s) == Members(stopRoutesMap[s])

\* the snapshot gives no record for the stop, or a record whose route set is
\* not the stop's current route set
SnapshotDiffers(s) ==
  \/ ~existingAllStops[s].exists
  \/ ~existingAllStops[s].routes.present
  \/ Members(existingAllStops[s].routes) # CurrentRouteSet(s)

TimesIssued(s) == Cardinality({k \in 1..Len(issued) : issued[k] = s})

\* C12: a stop-detail fetch is issued for a requested stop exactly when the
\* snapshot has no record for it or the record's route set differs from the
\* stop's current route set; every other stop is returned with its snapshot
\* record, error false and fromCache true, and without a fetch.
C12_FetchOnlyChangedStops ==
  (optpc = "done" /\ optOutcome = "fulfilled") =>
    \A j \in 1..Len(stopIds) :
      LET s == stopIds[j]
      IN  /\ SnapshotDiffers(s) => TimesIssued(s) = 1
          /\ ~SnapshotDiffers(s) =>
               /\ TimesIssued(s) = 0
               /\ \E k \in 1..Len(allResults) :
                    allResults[k] = [stopId |-> s, data |-> existingAllStops[s],
                                     error |-> FALSE, fromCache |-> TRUE]
               /\ \A k \in 1..Len(allResults) :
                    allResults[k].stopId = s => allResults[k].fromCache

\* one stop was reused although its routes are listed in another order, and
\* another stop was fetched
C12_Witness ==
  /\ optpc = "done"
  /\ Len(stopIds) = MaxStops
  /\ Len(issued) = 1
  /\ \E j \in 1..Len(stopIds) :
       /\ ~SnapshotDiffers(stopIds[j])
       /\ existingAllStops[stopIds[j]].routes.list # stopRoutesMap[stopIds[j]].list

\* C13: when the snapshot fetch fails (or the snapshot is absent) the call
\* does not fail: the snapshot counts as empty and every requested stop is
\* fetched fresh.
C13_SnapshotFailureFetchesAll ==
  /\ optOutcome # "rejected"
  /\ (optpc = "done" /\ snapshotFetch = "rejected") =>
       /\ optOutcome = "fulfilled"
       /\ existingAllStops = EmptySnapshot
       /\ issued = stopIds
       /\ Len(allResults) = Len(stopIds)
       /\ \A k \in 1..Len(allResults) :
            allResults[k].stopId = stopIds[k] /\ ~allResults[k].fromCache

\* a call with the most stops returned after the snapshot fetch had failed
C13_Witness ==
  /\ optpc = "done"
  /\ snapshotFetch = "rejected"
  /\ Len(stopIds) = MaxStops
  /\ Len(allResults) = MaxStops

\* C29: for a list of distinct stop identifiers the call returns exactly
\* one result per requested identifier, none lost and none duplicated,
\* each marked fromCache true or false, whatever the snapshot holds and
\* whichever stop fetches fail.
C29_OneResultPerStop ==
  (optpc = "done" /\ optOutcome = "fulfilled") =>
    /\ Len(allResults) = Len(stopIds)
    /\ \A j \in 1..Len(stopIds) :
         Cardinality({k \in 1..Len(allResults) : allResults[k].stopId = stopIds[j]}) = 1
    /\ \A k \in 1..Len(allResults) :
         /\ InList(allResults[k].stopId, stopIds)
         /\ allResults[k].fromCache \in BOOLEAN

\* a call for the most stops returned with a snapshot record for one stop
\* and the error result of a failed fetch for another
C29_Witness ==
  /\ optpc = "done"
  /\ Len(stopIds) = MaxStops
  /\ \E k \in 1..Len(allResults) : allResults[k].fromCache
  /\ \E k \in 1..Len(allResults) : ~allResults[k].fromCache /\ allResults[k].error

(***************************************************************************)
(* enrichStopWithRoutes (BaseDataProcessor and KMBDataProcessor): the stop *)
(* record is spread into a new object whose routes and data_timestamp are  *)
(* set.  An object is a record; a field the object lacks is a field the    *)
(* record lacks.                                                           *)
(***************************************************************************)
\* { ...base, <the fields of over> }
Spread(base, over) ==
  [f \in DOMAIN base \cup DOMAIN over |-> IF f \in DOMAIN over THEN over[f] ELSE base[f]]

\* the stop records a caller passes: fresh from the stop endpoint, or a
\* snapshot record that already holds routes and a timestamp
EnrichInputs ==
  {[name_en |-> n] : n \in StopNames}
    \cup {[name_en |-> n, routes |-> l] : n \in StopNames, l \in {<<>>, <<"1">>, <<"2", "1">>}}
    \cup {[name_en |-> n, routes |-> l, data_timestamp |-> 0] :
            n \in StopNames, l \in {<<>>, <<"1">>, <<"2", "1">>}}

\* the entries of stopRoutesMap: none, an array, or a Set (list is then its
\* insertion order, which Array.from keeps)
EnrichEntries ==
  {NoEntry}
    \cup {[present |-> TRUE, isArray |-> a, list |-> l] :
            a \in BOOLEAN, l \in {<<"2">>, <<"1", "2">>}}

\* stopData.routes || []
RoutesOrEmpty(d) == IF "routes" \in DOMAIN d THEN d.routes ELSE <<>>

\* routes that are added to those the record already holds
AppendedRoutes(d, entry, v) == RoutesOrEmpty(d) \o entry.list

\* the routes constant of enrichStopWithRoutes
RoutesFor(d, entry, v) ==
  IF entry.present
    THEN entry.list
    ELSE (IF v = "base" THEN RoutesOrEmpty(d) ELSE <<>>)

\* enrichStopWithRoutes(stopData, stopRoutesMap, stopId) called at time t
EnrichStopWithRoutes(d, entry, v, t) ==
  Spread(d, [routes |-> RoutesFor(d, entry, v), data_timestamp |-> t])

InitEnrich ==
  /\ enpc = "idle"
  /\ stopData = NullData
  /\ mapEntry = NoEntry
  /\ variant = Null
  /\ enriched = NullData
  /\ reEnriched = NullData

\* the first call
EnrichOnce(d, entry, v, t) ==
  /\ enpc = "idle"
  /\ stopData' = d
  /\ mapEntry' = entry
  /\ variant' = v
  /\ enriched' = EnrichStopWithRoutes(d, entry, v, t)
  /\ reEnriched' = NullData
  /\ enpc' = "once"
  /\ UNCHANGED otherThanEnrich

\* the call on the enriched record, with the same map and stop id, at a
\* time not before the first call
EnrichAgain(t) ==
  /\ enpc = "once"
  /\ t >= enriched.data_timestamp
  /\ reEnriched' = EnrichStopWithRoutes(enriched, mapEntry, variant, t)
  /\ enpc' = "twice"
  /\ UNCHANGED <<stopData, mapEntry, variant, enriched>>
  /\ UNCHANGED otherThanEnrich

\* both records have been used; the next record can be enriched
EnrichDone ==
  /\ enpc = "twice"
  /\ enpc' = "idle"
  /\ stopData' = NullData
  /\ mapEntry' = NoEntry
  /\ variant' = Null
  /\ enriched' = NullData
  /\ reEnriched' = NullData
  /\ UNCHANGED otherThanEnrich

NextEnrich ==
  \/ \E d \in EnrichInputs, entry \in EnrichEntries, v \in {"base", "kmb"}, t \in 1..MaxTime :
       EnrichOnce(d, entry, v, t)
  \/ \E t \in 1..MaxTime : EnrichAgain(t)
  \/ EnrichDone

EnrichInit == InitEnrich /\ IdleBatch /\ IdleFetch /\ IdleLimiter /\ IdleRouteStops /\ IdleStopDetails /\ IdleCompare /\ IdleOptimized /\ IdleEnrichRoute /\ IdleNearby /\ IdleSaveAllRoutes /\ IdleService /\ IdleProcess /\ IdleBulk /\ IdleRun /\ IdleKy /\ IdleRequests

SpecEnrich == EnrichInit /\ [][NextEnrich]_vars

\* C15: enriching the enriched record again with the same map and stop id
\* gives a record equal to the first enrichment in every field except
\* data_timestamp, also when the map has no entry for the stop.
C15_EnrichIdempotent ==
  enpc = "twice" =>
    /\ DOMAIN reEnriched = DOMAIN enriched
    /\ \A f \in DOMAIN enriched \ {"data_timestamp"} : reEnriched[f] = enriched[f]

\* a record that held routes was enriched twice, at different times, with a
\* map that has no entry for the stop
C15_Witness ==
  /\ enpc = "twice"
  /\ ~mapEntry.present
  /\ variant = "base"
  /\ enriched.routes # <<>>
  /\ reEnriched.data_timestamp # enriched.data_timestamp

(***************************************************************************)
(* createEnrichedRouteData (CTBDataProcessor and KMBDataProcessor): the    *)
(* inbound and outbound associations are concatenated, sorted by direction *)
(* and sequence, and each is given the names and coordinates of its stop   *)
(* when they are known.  CTB associations carry dir and a numeric seq, KMB *)
(* associations carry bound and seq as a decimal string.                   *)
(***************************************************************************)
SortStops == {"S1", "S2"}

DirCodes == {"I", "O"}

CtbAssociations ==
  {[stop |-> s, dir |-> d, seq |-> q] : s \in SortStops, d \in DirCodes, q \in {1, 2}}

KmbAssociations ==
  {[stop |-> s, bound |-> d, seq |-> q] : s \in SortStops, d \in DirCodes, q \in {"2", "10"}}

AssociationsOf(p) == IF p = "ctb" THEN CtbAssociations ELSE KmbAssociations

\* parseInt(seq) || 0 on the decimal strings of the KMB feed
ParseIntOrZero(q) == CASE q = "1" -> 1 [] q = "2" -> 2 [] q = "10" -> 10 [] OTHER -> 0

\* the direction the comparator reads: a.dir, or a.bound || ''
DirOf(a, p) ==
  IF p = "ctb" THEN a.dir ELSE (IF "bound" \in DOMAIN a THEN a.bound ELSE "")

\* the sequence number the comparator subtracts
SeqOf(a, p) == IF p = "ctb" THEN a.seq ELSE ParseIntOrZero(a.seq)

\* String.prototype.localeCompare on the direction codes
LocaleCompare(x, y) ==
  IF x = y THEN 0
  ELSE IF x = "" \/ (x = "I" /\ y = "O") THEN -1
  ELSE 1

\* a comparator that ignores the direction
CompareBySeqOnly(a, b, p) == SeqOf(a, p) - SeqOf(b, p)

\* the comparator passed to allStops.sort
CompareStops(a, b, p) ==
  IF DirOf(a, p) # DirOf(b, p)
    THEN LocaleCompare(DirOf(a, p), DirOf(b, p))
    ELSE SeqOf(a, p) - SeqOf(b, p)

\* Array.prototype.sort is stable: an element goes behind every element
\* that does not compare greater
RECURSIVE InsertStable(_, _, _)
InsertStable(x, sorted, p) ==
  IF sorted = <<>> THEN <<x>>
  ELSE IF CompareStops(Head(sorted), x, p) > 0
    THEN <<x>> \o sorted
    ELSE <<Head(sorted)>> \o InsertStable(x, Tail(sorted), p)

RECURSIVE SortAllStops(_, _)
SortAllStops(list, p) ==
  IF list = <<>> THEN <<>>
  ELSE InsertStable(list[Len(list)], SortAllStops(SubSeq(list, 1, Len(list) - 1), p), p)

\* the details collected for a stop
DetailsOf(s) ==
  [name_tc |-> s, name_en |-> s, name_sc |-> s,
   lat |-> IF s = "S3" THEN "22.2" ELSE "22.1", long |-> "114.1"]

\* a loop body that extends every association
AlwaysEnriched(a, found) == Spread(a, DetailsOf(a.stop))

\* the record pushed for one association
EnrichedAssociation(a, found) ==
  IF a.stop \in found THEN Spread(a, DetailsOf(a.stop)) ELSE a

\* createEnrichedRouteData(route, routeStops, successfulStops).stops
CreateEnrichedRouteData(stops, found, p) ==
  LET allStops == SortAllStops(stops.inbound \o stops.outbound, p)
  IN  [k \in 1..Len(allStops) |-> EnrichedAssociation(allStops[k], found)]

\* the inbound and outbound lists a route can have, in any order
RouteStopInputs(p) ==
  UNION {{[inbound |-> [k \in 1..cut |-> l[k]],
            outbound |-> [k \in 1..(Len(l) - cut) |-> l[cut + k]]] : cut \in 0..Len(l)} :
           l \in UNION {[1..n -> AssociationsOf(p)] : n \in 0..MaxAssoc}}

InitEnrichRoute ==
  /\ erpc = "idle"
  /\ routeStops = [inbound |-> <<>>, outbound |-> <<>>]
  /\ successfulStops = <<>>
  /\ processor = Null
  /\ enrichedRouteData = <<>>

\* the successfulStops lists a service passes: a record per stop id, whose
\* data is missing for a stop of KMB that got a fallback record
DetailRecords ==
  {<<[stopId |-> "S1", data |-> DetailsOf("S1")]>>,
   <<[stopId |-> "S2", data |-> NullData], [stopId |-> "S1", data |-> DetailsOf("S1")]>>}

\* the stops for which successfulStops.find(...) gives a record with data
StopsWithData(records) ==
  {s \in {records[k].stopId : k \in 1..Len(records)} :
     LET first == CHOOSE k \in 1..Len(records) :
                    /\ records[k].stopId = s
                    /\ \A j \in 1..(k - 1) : records[j].stopId # s
     IN  records[first].data # NullData}

CreateEnrichedRoute(stops, records, p) ==
  /\ erpc = "idle"
  /\ routeStops' = stops
  /\ successfulStops' = records
  /\ processor' = p
  /\ enrichedRouteData' = CreateEnrichedRouteData(stops, StopsWithData(records), p)
  /\ erpc' = "done"
  /\ UNCHANGED otherThanEnrichRoute

\* the record has been saved; the next route can be processed
EnrichedRouteSaved ==
  /\ erpc = "done"
  /\ erpc' = "idle"
  /\ routeStops' = [inbound |-> <<>>, outbound |-> <<>>]
  /\ successfulStops' = <<>>
  /\ processor' = Null
  /\ enrichedRouteData' = <<>>
  /\ UNCHANGED otherThanEnrichRoute

NextEnrichRoute ==
  \/ /\ erpc = "idle"
     /\ \E p \in {"ctb", "kmb"}, records \in DetailRecords :
          \E stops \in RouteStopInputs(p) : CreateEnrichedRoute(stops, records, p)
  \/ EnrichedRouteSaved

EnrichRouteInit == InitEnrichRoute /\ IdleBatch /\ IdleFetch /\ IdleLimiter /\ IdleRouteStops /\ IdleStopDetails /\ IdleCompare /\ IdleOptimized /\ IdleEnrich /\ IdleNearby /\ IdleSaveAllRoutes /\ IdleService /\ IdleProcess /\ IdleBulk /\ IdleRun /\ IdleKy /\ IdleRequests

SpecEnrichRoute == EnrichRouteInit /\ [][NextEnrichRoute]_vars

\* the association an output record was made from
AssociationIn(o, p) ==
  IF p = "ctb" THEN [stop |-> o.stop, dir |-> o.dir, seq |-> o.seq]
  ELSE [stop |-> o.stop, bound |-> o.bound, seq |-> o.seq]

SameGroup(a, b, p) == DirOf(a, p) = DirOf(b, p) /\ SeqOf(a, p) = SeqOf(b, p)

\* C16: whatever the order of the inbound and outbound lists, the output has
\* every "I" association before every "O" association, ascending numeric
\* sequence within a direction, and associations equal in direction and
\* sequence in their original relative order.
C16_SortedByDirectionAndSeq ==
  erpc = "done" =>
    LET allStops == routeStops.inbound \o routeStops.outbound
        out == [k \in 1..Len(enrichedRouteData) |->
                  AssociationIn(enrichedRouteData[k], processor)]
    IN  /\ Len(out) = Len(allStops)
        /\ \A j, k \in 1..Len(out) :
             j < k =>
               /\ DirOf(out[j], processor) = "O" => DirOf(out[k], processor) = "O"
               /\ DirOf(out[j], processor) = DirOf(out[k], processor) =>
                    SeqOf(out[j], processor) <= SeqOf(out[k], processor)
        /\ \A k \in 1..Len(allStops) :
             SelectSeq(out, LAMBDA o : SameGroup(o, allStops[k], processor))
               = SelectSeq(allStops, LAMBDA a : SameGroup(a, allStops[k], processor))

\* a KMB route whose lists put "O" before "I" and sequence 10 before 2, with
\* two associations equal in direction and sequence, was sorted
C16_Witness ==
  /\ erpc = "done"
  /\ processor = "kmb"
  /\ Len(enrichedRouteData) = MaxAssoc
  /\ routeStops.inbound # <<>>
  /\ routeStops.inbound[1].bound = "O"
  /\ routeStops.inbound[1].seq = "10"
  /\ enrichedRouteData[Len(enrichedRouteData)].seq = "10"
  /\ \E j, k \in 1..Len(enrichedRouteData) :
       /\ j < k
       /\ SameGroup(enrichedRouteData[j], enrichedRouteData[k], processor)
       /\ enrichedRouteData[j].stop # enrichedRouteData[k].stop

\* the data of the detail record of a stop, when one with data exists
HasDetails(s) ==
  \E k \in 1..Len(successfulStops) :
    successfulStops[k].stopId = s /\ successfulStops[k].data # NullData

DetailFields == {"name_tc", "name_en", "name_sc", "lat", "long"}

\* o is what the claim says is emitted for the association a
EmittedFor(o, a) ==
  IF HasDetails(a.stop)
    THEN /\ DOMAIN o = DOMAIN a \cup DetailFields
         /\ \A f \in DOMAIN a \ DetailFields : o[f] = a[f]
         /\ \E k \in 1..Len(successfulStops) :
              /\ successfulStops[k].stopId = a.stop
              /\ \A f \in DetailFields : o[f] = successfulStops[k].data[f]
    ELSE o = a

\* C25: createEnrichedRouteData emits exactly one entry per inbound or
\* outbound association, none dropped or duplicated: the association
\* extended with name_tc, name_en, name_sc, lat and long when a detail
\* record with non-null data exists for its stop, the bare association
\* otherwise.
C25_OneEntryPerAssociation ==
  erpc = "done" =>
    LET allStops == routeStops.inbound \o routeStops.outbound
    IN  /\ Len(enrichedRouteData) = Len(allStops)
        /\ \E from \in Permutations(1..Len(allStops)) :
             \A k \in 1..Len(allStops) : EmittedFor(enrichedRouteData[k], allStops[from[k]])

\* a route with an association of a stop with details, one of a stop whose
\* record has no data and one of the same stop again was enriched
C25_Witness ==
  /\ erpc = "done"
  /\ Len(successfulStops) = 2
  /\ Len(enrichedRouteData) = 3
  /\ \E j, k \in 1..3 :
       /\ j # k
       /\ enrichedRouteData[j].stop = "S2"
       /\ enrichedRouteData[k].stop = "S2"
       /\ "name_en" \notin DOMAIN enrichedRouteData[j]
  /\ \E k \in 1..3 : enrichedRouteData[k].stop = "S1" /\ enrichedRouteData[k].name_en = "S1"

(***************************************************************************)
(* KMBService.addNearbyStopIdsToMemory: the stops are grouped under the    *)
(* key `${lat},${long}` and every stop gets the other members of its group *)
(* as nearbyStopIDs.  Coordinates are decimal strings; a fallback record   *)
(* has no coordinates.                                                     *)
(***************************************************************************)
CoordTexts == {"22.1", "22.2"}

\* the records allStopsData can hold for a stop: with coordinates, or the
\* fallback record without them
NearbyInputs(s) ==
  {[stop |-> s, lat |-> la, long |-> lo] : la \in CoordTexts, lo \in CoordTexts}
    \cup {[stop |-> s]}

\* the text a template literal gives for a field
TemplateText(d, f) == IF f \in DOMAIN d THEN d[f] ELSE "undefined"

\* a key made from the latitude alone
LatOnlyKey(d) == TemplateText(d, "lat")

\* `${stopData.lat},${stopData.long}`
CoordKey(d) == TemplateText(d, "lat") \o "," \o TemplateText(d, "long")

\* Object.entries(allStopsData): the stop ids in insertion order
EntriesOf(data) == SelectSeq(<<"S1", "S2", "S3">>, LAMBDA s : s \in DOMAIN data)

\* coordinateMap.get(coordKey)
CoordinateGroup(data, key) ==
  SelectSeq(EntriesOf(data), LAMBDA s : CoordKey(data[s]) = key)

\* nearbyStops.filter(nearbyStopId => nearbyStopId !== stopId)
OtherNearbyStops(data, s) ==
  SelectSeq(CoordinateGroup(data, CoordKey(data[s])), LAMBDA t : t # s)

\* allStopsData after addNearbyStopIdsToMemory(allStopsData)
WithNearbyStopIds(data) ==
  [s \in DOMAIN data |-> Spread(data[s], [nearbyStopIDs |-> OtherNearbyStops(data, s)])]

InitNearby ==
  /\ nbpc = "idle"
  /\ allStopsData = <<>>
  /\ stopsBefore = <<>>

AddNearbyStopIdsToMemory(data) ==
  /\ nbpc = "idle"
  /\ stopsBefore' = data
  /\ allStopsData' = WithNearbyStopIds(data)
  /\ nbpc' = "done"
  /\ UNCHANGED otherThanNearby

\* the records have been saved; the next run starts with no records
NearbySaved ==
  /\ nbpc = "done"
  /\ nbpc' = "idle"
  /\ allStopsData' = <<>>
  /\ stopsBefore' = <<>>
  /\ UNCHANGED otherThanNearby

\* the stop dictionaries a run can hold: a record for each discovered stop
NearbyStopSets ==
  UNION {{data \in [found -> UNION {NearbyInputs(s) : s \in found}] :
            \A s \in found : data[s].stop = s} : found \in SUBSET StopIds}

NextNearby ==
  \/ /\ nbpc = "idle"
     /\ \E data \in NearbyStopSets : AddNearbyStopIdsToMemory(data)
  \/ NearbySaved

NearbyInit == InitNearby /\ IdleBatch /\ IdleFetch /\ IdleLimiter /\ IdleRouteStops /\ IdleStopDetails /\ IdleCompare /\ IdleOptimized /\ IdleEnrich /\ IdleEnrichRoute /\ IdleSaveAllRoutes /\ IdleService /\ IdleProcess /\ IdleBulk /\ IdleRun /\ IdleKy /\ IdleRequests

SpecNearby == NearbyInit /\ [][NextNearby]_vars

\* a coordinate of a record: its text, or the absence of the field
CoordinateOf(d, f) == IF f \in DOMAIN d THEN <<"text", d[f]>> ELSE <<"undefined">>

SameCoordinates(a, b) ==
  /\ CoordinateOf(a, "lat") = CoordinateOf(b, "lat")
  /\ CoordinateOf(a, "long") = CoordinateOf(b, "long")

\* C19: after addNearbyStopIdsToMemory the nearbyStopIDs of every stop A are
\* exactly the other stops whose latitude and longitude are both identical
\* to A's; the relation is symmetric, no stop lists itself, and a stop that
\* shares its coordinates with no other stop gets an empty list.
C19_NearbyStopsShareCoordinates ==
  nbpc = "done" =>
    \A a \in DOMAIN allStopsData :
      LET ids == allStopsData[a].nearbyStopIDs
          listed == {ids[k] : k \in 1..Len(ids)}
      IN  /\ listed = {b \in DOMAIN stopsBefore \ {a} :
                         SameCoordinates(stopsBefore[a], stopsBefore[b])}
          /\ Cardinality(listed) = Len(ids)
          /\ a \notin listed
          /\ \A b \in listed :
               \E k \in 1..Len(allStopsData[b].nearbyStopIDs) :
                 allStopsData[b].nearbyStopIDs[k] = a

\* two stops share both coordinates, a third shares only the latitude
C19_Witness ==
  /\ nbpc = "done"
  /\ DOMAIN allStopsData = StopIds
  /\ allStopsData["S1"].nearbyStopIDs = <<"S2">>
  /\ allStopsData["S2"].nearbyStopIDs = <<"S1">>
  /\ allStopsData["S3"].nearbyStopIDs = <<>>
  /\ "lat" \in DOMAIN allStopsData["S1"]
  /\ "lat" \in DOMAIN allStopsData["S3"]
  /\ allStopsData["S3"].lat = allStopsData["S1"].lat

(***************************************************************************)
(* saveAllRoutes: the enriched stops of every route are split into groups  *)
(* (direction for CTB, bound and service type for KMB), each group is      *)
(* sorted by sequence and reduced to its stop ids, the names of every      *)
(* listed stop go to a flat stops dictionary, and the structure is written *)
(* to allroutes.json.                                                      *)
(***************************************************************************)
ServiceTypes == {"1", "2"}

\* KMB associations as the route-stop feed gives them, with service_type
KmbServiceAssociations ==
  {[stop |-> s, bound |-> d, seq |-> q, service_type |-> t] :
     s \in SortStops, d \in DirCodes, q \in {"2", "10"}, t \in ServiceTypes}

CompactAssociations(m) == IF m = "ctb" THEN CtbAssociations ELSE KmbServiceAssociations

\* a field of an object, undefined when the object lacks it
Undefined == "undefined"

FieldOf(a, f) == IF f \in DOMAIN a THEN a[f] ELSE Undefined

\* the entry of the stops dictionary made from an association
NamesOf(a) ==
  [name_tc |-> FieldOf(a, "name_tc"), name_en |-> FieldOf(a, "name_en"),
   name_sc |-> FieldOf(a, "name_sc")]

\* a comparator that returns 0 for every pair: the order of arrival is kept
KeepsOrder(a, b, m) == 0

\* (a, b) => parseInt(a.seq) - parseInt(b.seq)
BySeq(a, b, m) == SeqOf(a, m) - SeqOf(b, m)

RECURSIVE InsertBySeq(_, _, _)
InsertBySeq(x, sorted, m) ==
  IF sorted = <<>> THEN <<x>>
  ELSE IF BySeq(Head(sorted), x, m) > 0
    THEN <<x>> \o sorted
    ELSE <<Head(sorted)>> \o InsertBySeq(x, Tail(sorted), m)

\* group.sort(by seq), stable
RECURSIVE SortBySeq(_, _)
SortBySeq(list, m) ==
  IF list = <<>> THEN <<>>
  ELSE InsertBySeq(list[Len(list)], SortBySeq(SubSeq(list, 1, Len(list) - 1), m), m)

StopIdsOf(list) == [k \in 1..Len(list) |-> list[k].stop]

\* CTB: stops.filter(stop => stop.dir === d).sort(by seq)
DirectionStops(stops, d) == SortBySeq(SelectSeq(stops, LAMBDA a : a.dir = d), "ctb")

\* KMB: `${bound}_${serviceType}` with bound = stop.bound || stop.dir ||
\* 'Unknown' and serviceType = stop.service_type || '1'
GroupKey(bound, serviceType) == bound \o "_" \o serviceType

GroupKeyOf(a) ==
  GroupKey(IF "bound" \in DOMAIN a THEN a.bound
           ELSE IF "dir" \in DOMAIN a THEN a.dir ELSE "Unknown",
           IF "service_type" \in DOMAIN a THEN a.service_type ELSE "1")

\* key.split('_') on the keys GroupKey makes
SplitKey(key) ==
  CHOOSE pair \in (DirCodes \cup {"Unknown"}) \X ServiceTypes : GroupKey(pair[1], pair[2]) = key

\* Object.entries(groupedStops): the keys in the order they first occur
RECURSIVE KeysInOrder(_)
KeysInOrder(stops) ==
  IF stops = <<>> THEN <<>>
  ELSE LET before == KeysInOrder(SubSeq(stops, 1, Len(stops) - 1))
           key == GroupKeyOf(stops[Len(stops)])
       IN  IF \E k \in 1..Len(before) : before[k] = key THEN before ELSE Append(before, key)

GroupStops(stops, key) == SortBySeq(SelectSeq(stops, LAMBDA a : GroupKeyOf(a) = key), "kmb")

\* compactData.routes[routeNumber]
CompactRoute(stops, m) ==
  IF m = "ctb"
    THEN [g \in {<<"I">>, <<"O">>} |-> StopIdsOf(DirectionStops(stops, g[1]))]
    ELSE [g \in {SplitKey(KeysInOrder(stops)[k]) : k \in 1..Len(KeysInOrder(stops))} |->
            StopIdsOf(GroupStops(stops, GroupKey(g[1], g[2])))]

\* the associations of a route in the order their stops are pushed
RECURSIVE GroupsInOrder(_, _)
GroupsInOrder(stops, keys) ==
  IF keys = <<>> THEN <<>>
  ELSE GroupStops(stops, Head(keys)) \o GroupsInOrder(stops, Tail(keys))

PushedOfRoute(stops, m) ==
  IF m = "ctb"
    THEN DirectionStops(stops, "I") \o DirectionStops(stops, "O")
    ELSE GroupsInOrder(stops, KeysInOrder(stops))

\* Object.entries(allRoutesData): integer-like keys come first
RouteKeys == <<"2", "1A">>

RoutesInOrder(data) == SelectSeq(RouteKeys, LAMBDA r : r \in DOMAIN data)

RECURSIVE PushedInOrder(_, _, _)
PushedInOrder(data, routes, m) ==
  IF routes = <<>> THEN <<>>
  ELSE PushedOfRoute(data[Head(routes)].stops, m) \o PushedInOrder(data, Tail(routes), m)

\* compactData.stops: the entry of a stop is made when it is first pushed
CompactStops(data, m) ==
  LET pushed == PushedInOrder(data, RoutesInOrder(data), m)
      First(s) == CHOOSE k \in 1..Len(pushed) :
                    /\ pushed[k].stop = s
                    /\ \A j \in 1..(k - 1) : pushed[j].stop # s
  IN  [s \in {pushed[k].stop : k \in 1..Len(pushed)} |-> NamesOf(pushed[First(s)])]

CompactData(data, m) ==
  [routes |-> [r \in DOMAIN data |-> CompactRoute(data[r].stops, m)],
   stops |-> CompactStops(data, m)]

\* the stops whose details were collected
NamedStops == {"S1"}

\* the enriched stops of route 1A: any list of up to n associations, in any
\* order
FirstRouteStops(m, n) ==
  UNION {[1..k -> {EnrichedAssociation(a, NamedStops) : a \in CompactAssociations(m)}] :
           k \in 0..n}

\* the enriched stops of route 2, when the run has it
SecondRouteStops(m) ==
  IF m = "ctb"
    THEN <<[stop |-> "S2", dir |-> "O", seq |-> 2],
           EnrichedAssociation([stop |-> "S1", dir |-> "O", seq |-> 1], NamedStops)>>
    ELSE <<[stop |-> "S2", bound |-> "O", seq |-> "10", service_type |-> "1"],
           EnrichedAssociation([stop |-> "S1", bound |-> "O", seq |-> "2",
                                service_type |-> "1"], NamedStops)>>

\* route 1A alone, or routes 1A and 2 with one association less in 1A
AllRoutesInputs(m) ==
  {[r \in {"1A"} |-> [route |-> r, stops |-> l]] : l \in FirstRouteStops(m, MaxAssoc)}
    \cup {[r \in {"1A", "2"} |->
             [route |-> r, stops |-> IF r = "1A" THEN l ELSE SecondRouteStops(m)]] :
            l \in FirstRouteStops(m, MaxAssoc - 1)}

InitSaveAllRoutes == IdleSaveAllRoutes

\* saveAllRoutes(allRoutesData, routesMetadata) up to the write
SaveAllRoutes(m, data) ==
  /\ sarpc = "idle"
  /\ sarpc' = "built"
  /\ manager' = m
  /\ allRoutesData' = data
  /\ compactData' = CompactData(data, m)
  /\ UNCHANGED <<allroutesFile, sarResult>>
  /\ UNCHANGED otherThanSaveAllRoutes

\* await fs.writeFile(filePath, JSON.stringify(compactData)); a failed
\* write is caught and the method resolves to false
WriteAllRoutes(ok) ==
  /\ sarpc = "built"
  /\ sarpc' = "done"
  /\ allroutesFile' = IF ok THEN [written |-> TRUE, content |-> compactData] ELSE allroutesFile
  /\ sarResult' = ok
  /\ UNCHANGED <<allRoutesData, manager, compactData>>
  /\ UNCHANGED otherThanSaveAllRoutes

\* the next run of the file manager
SaveAllRoutesDone ==
  /\ sarpc = "done"
  /\ sarpc' = "idle"
  /\ allRoutesData' = <<>>
  /\ manager' = Null
  /\ compactData' = NoCompactData
  /\ allroutesFile' = NotWritten
  /\ sarResult' = Null
  /\ UNCHANGED otherThanSaveAllRoutes

NextSaveAllRoutes ==
  \/ sarpc = "idle" /\ \E m \in {"ctb", "kmb"} : \E data \in AllRoutesInputs(m) : SaveAllRoutes(m, data)
  \/ \E ok \in BOOLEAN : WriteAllRoutes(ok)
  \/ SaveAllRoutesDone

SaveAllRoutesInit == InitSaveAllRoutes /\ IdleBatch /\ IdleFetch /\ IdleLimiter /\ IdleRouteStops /\ IdleStopDetails /\ IdleCompare /\ IdleOptimized /\ IdleEnrich /\ IdleEnrichRoute /\ IdleNearby /\ IdleService /\ IdleProcess /\ IdleBulk /\ IdleRun /\ IdleKy /\ IdleRequests

SpecSaveAllRoutes == SaveAllRoutesInit /\ [][NextSaveAllRoutes]_vars

\* the associations of a route that belong to one group, as given
GroupOf(stops, g) ==
  IF manager = "ctb"
    THEN SelectSeq(stops, LAMBDA a : a.dir = g[1])
    ELSE SelectSeq(stops, LAMBDA a : a.bound = g[1] /\ a.service_type = g[2])

GroupNames == IF manager = "ctb" THEN {<<d>> : d \in DirCodes} ELSE DirCodes \X ServiceTypes

\* list holds the stop ids of the group, each association once, by ascending seq
ListsGroup(list, group) ==
  /\ Len(list) = Len(group)
  /\ \E order \in Permutations(1..Len(group)) :
       /\ \A k \in 1..Len(group) : list[k] = group[order[k]].stop
       /\ \A j \in 1..Len(group) : \A k \in j..Len(group) :
            SeqOf(group[order[j]], manager) <= SeqOf(group[order[k]], manager)

\* C20: in the compacted aggregate, for every route and direction (and
\* service type for KMB) the listed stop ids are exactly the ids of that
\* group's associations in ascending numeric sequence order, and every
\* listed id has an entry in the flat stops dictionary that holds only
\* name_tc, name_en and name_sc; allroutes.json, once written, holds that
\* structure.
C20_CompactAllRoutes ==
  sarpc # "idle" =>
    /\ DOMAIN compactData.routes = DOMAIN allRoutesData
    /\ \A r \in DOMAIN allRoutesData : \A g \in GroupNames :
         LET group == GroupOf(allRoutesData[r].stops, g)
         IN  IF g \in DOMAIN compactData.routes[r]
               THEN /\ ListsGroup(compactData.routes[r][g], group)
                    /\ \A k \in 1..Len(compactData.routes[r][g]) :
                         /\ compactData.routes[r][g][k] \in DOMAIN compactData.stops
                         /\ DOMAIN compactData.stops[compactData.routes[r][g][k]]
                              = {"name_tc", "name_en", "name_sc"}
               ELSE manager = "kmb" /\ group = <<>>
    /\ (allroutesFile.written => allroutesFile.content = compactData)

\* a KMB route whose group I/1 arrives with seq "10" before seq "2" is
\* written with the stop of seq "2" first
C20_Witness ==
  /\ sarpc = "done"
  /\ manager = "kmb"
  /\ allroutesFile.written
  /\ Len(allRoutesData["1A"].stops) = 3
  /\ allRoutesData["1A"].stops[1].seq = "10"
  /\ allRoutesData["1A"].stops[1].stop = "S1"
  /\ allRoutesData["1A"].stops[2].seq = "2"
  /\ allRoutesData["1A"].stops[2].stop = "S2"
  /\ allRoutesData["1A"].stops[3].stop = "S2"
  /\ \A k \in 1..3 : GroupKeyOf(allRoutesData["1A"].stops[k]) = "I_1"
  /\ allroutesFile.content.routes["1A"][<<"I", "1">>][3] = "S1"
  /\ allroutesFile.content.stops["S2"].name_en = Undefined

(***************************************************************************)
(* Service.collectAndSaveData: directories, routes, route-stops, stop      *)
(* details, stop files, route files, statistics.  The upstream API serves  *)
(* route 1A (inbound S1, outbound S2) and route 2 (inbound S2, outbound    *)
(* S3); every fetch and every file write can fail.                         *)
(***************************************************************************)
ErrorOf(m) == [message |-> m, stack |-> "Error: " \o m \o " at collectAndSaveData"]

\* the errors fs.mkdir can throw
MkdirErrors == {ErrorOf("EACCES"), ErrorOf("ENOSPC")}

\* the errors fetchJson can throw
FetchErrors == {ErrorOf("ETIMEDOUT"), ErrorOf("HTTP 500")}

\* new ProcessingError(message, details)
ProcessingError(message, details) ==
  [name |-> "ProcessingError", message |-> message, details |-> details]

\* a catch clause that lets the error through
RejectsWith(s, error) == [settled |-> TRUE, rejected |-> TRUE, reason |-> error]

\* catch (error) { return Result.failure(processingError) }
ServiceCatch(s, error) ==
  [settled |-> TRUE, rejected |-> FALSE, ok |-> FALSE,
   error |-> ProcessingError(IF s = "ctb" THEN "Data collection failed"
                             ELSE "KMB data collection failed",
                             [originalError |-> error.message, stack |-> error.stack])]

\* return Result.success({totalRoutes, totalStops, successfulStops, saveErrors})
ServiceSuccess(stats) == [settled |-> TRUE, rejected |-> FALSE, ok |-> TRUE, value |-> stats]

\* the route lists the routes endpoint can return
RoutesFeeds == {<<>>, <<"1A">>, <<"1A", "2">>}

\* the CTB route-stop endpoint: one list per route and direction
CtbLeg(r, d) ==
  IF r = "1A"
    THEN (IF d = "I" THEN <<[route |-> r, stop |-> "S1", dir |-> "I", seq |-> 1]>>
          ELSE <<[route |-> r, stop |-> "S2", dir |-> "O", seq |-> 1]>>)
    ELSE (IF d = "I" THEN <<[route |-> r, stop |-> "S2", dir |-> "I", seq |-> 1]>>
          ELSE <<[route |-> r, stop |-> "S3", dir |-> "O", seq |-> 1]>>)

\* the KMB route-stop endpoint: every association of the network
KmbRouteStopFeed ==
  <<[route |-> "1A", stop |-> "S1", bound |-> "I", seq |-> "1", service_type |-> "1"],
    [route |-> "1A", stop |-> "S2", bound |-> "O", seq |-> "1", service_type |-> "1"],
    [route |-> "2", stop |-> "S2", bound |-> "I", seq |-> "1", service_type |-> "1"],
    [route |-> "2", stop |-> "S3", bound |-> "O", seq |-> "1", service_type |-> "1"]>>

RouteSet(routes) == {routes[k] : k \in 1..Len(routes)}

\* CTBDataProcessor.processRouteStopResults: routes with an error are left out
ProcessRouteStopResults(routes, failed) ==
  [r \in RouteSet(routes) \ failed |-> [inbound |-> CtbLeg(r, "I"), outbound |-> CtbLeg(r, "O")]]

\* KMBDataCollector.processRouteStopsData: every route starts with two empty lists
ProcessRouteStopsData(allRouteStops, routes) ==
  [r \in RouteSet(routes) |->
     [inbound |-> SelectSeq(allRouteStops, LAMBDA a : a.route = r /\ a.bound = "I"),
      outbound |-> SelectSeq(allRouteStops, LAMBDA a : a.route = r /\ a.bound = "O")]]

StopsOfRoute(rs, r) ==
  {(rs[r].inbound \o rs[r].outbound)[k].stop : k \in 1..Len(rs[r].inbound \o rs[r].outbound)}

\* the order in which the routes are added to the Sets of stopRoutesMap:
\* the order of the results (CTB), Object.entries(routeStops) (KMB)
MapOrder(s, routes, rs) ==
  IF s = "ctb" THEN SelectSeq(routes, LAMBDA r : r \in DOMAIN rs) ELSE RoutesInOrder(rs)

\* stopRoutesMap, each Set as the list of its insertion order
StopRoutesMap(s, routes, rs) ==
  [stop \in UNION {StopsOfRoute(rs, r) : r \in DOMAIN rs} |->
     SelectSeq(MapOrder(s, routes, rs), LAMBDA r : stop \in StopsOfRoute(rs, r))]

\* the record the stop endpoint returns for a stop
StopRecord(s) == Spread([stop |-> s], DetailsOf(s))

\* new Date().toISOString() of this run; snapshot records hold an older one
RunTime == 1

\* the record of a stop in the published allstops.json of the previous run
SnapshotRecord(s, routes) ==
  Spread(StopRecord(s), [routes |-> routes, data_timestamp |-> 0])

\* the outcomes of the stop-detail collection for one stop
DetailOutcomes(s) == IF s = "ctb" THEN {"fetched", "cached", "failed"} ELSE {"fetched", "failed"}

\* the details kept for the stops whose collection succeeded
StopsMap(outcomes, map) ==
  [stop \in {t \in DOMAIN outcomes : outcomes[t] # "failed"} |->
     IF outcomes[stop] = "cached" THEN SnapshotRecord(stop, map[stop]) ELSE StopRecord(stop)]

\* the fallback stop data of KMBService
FallbackStopData(stopId) ==
  [stop |-> stopId, name_en |-> "Stop " \o stopId, name_tc |-> "站點 " \o stopId,
   name_sc |-> "站点 " \o stopId]

MapEntry(map, stop) ==
  IF stop \in DOMAIN map THEN [present |-> TRUE, isArray |-> FALSE, list |-> map[stop]]
  ELSE NoEntry

\* allStopsData as the service builds it
AllStopsData(s, map, details) ==
  IF s = "ctb"
    THEN [stop \in DOMAIN details |->
            EnrichStopWithRoutes(details[stop], MapEntry(map, stop), "base", RunTime)]
    ELSE WithNearbyStopIds(
           [stop \in DOMAIN map |->
              EnrichStopWithRoutes(IF stop \in DOMAIN details THEN details[stop]
                                   ELSE FallbackStopData(stop),
                                   MapEntry(map, stop), "kmb", RunTime)])

\* a counter that leaves the fallback records out
CountsDetailsOnly(s, map, details) == Cardinality(DOMAIN details)

\* processedStops (KMB), successfulStops.length (CTB)
ProcessedStops(s, map, details) ==
  IF s = "ctb" THEN Cardinality(DOMAIN details) ELSE Cardinality(DOMAIN map)

\* allRoutesData: createEnrichedRouteData for every route of routeStops
AllRoutesData(s, rs, details) ==
  [r \in DOMAIN rs |->
     [route |-> r, stops |-> CreateEnrichedRouteData(rs[r], DOMAIN details, s)]]

InitService == IdleService

\* a run of collectAndSaveData of one of the two services starts
StartRun(s) ==
  /\ svpc = "idle"
  /\ svpc' = "dirs"
  /\ svService' = s
  /\ UNCHANGED <<svRoutes, svRouteStops, svStopRoutesMap, svStopsMap, svAllStops,
                 svCounters, svFiles, svFaults, svOutcome>>
  /\ UNCHANGED otherThanService

\* await this.fileManager.ensureDirectories() returns
EnsureDirectories ==
  /\ svpc = "dirs"
  /\ svpc' = "routes"
  /\ UNCHANGED <<svService, svRoutes, svRouteStops, svStopRoutesMap, svStopsMap,
                 svAllStops, svCounters, svFiles, svFaults, svOutcome>>
  /\ UNCHANGED otherThanService

\* fs.mkdir throws: the catch clause of collectAndSaveData takes the error
EnsureDirectoriesThrows(e) ==
  /\ svpc = "dirs"
  /\ svpc' = "returned"
  /\ svFaults' = svFaults \cup {[kind |-> "mkdir", error |-> e]}
  /\ svOutcome' = ServiceCatch(svService, e)
  /\ UNCHANGED <<svService, svRoutes, svRouteStops, svStopRoutesMap, svStopsMap,
                 svAllStops, svCounters, svFiles>>
  /\ UNCHANGED otherThanService

\* const routes = await this.collector.collectRoutes()
CollectRoutes(l) ==
  /\ svpc = "routes"
  /\ svpc' = "routeStops"
  /\ svRoutes' = l
  /\ UNCHANGED <<svService, svRouteStops, svStopRoutesMap, svStopsMap, svAllStops,
                 svCounters, svFiles, svFaults, svOutcome>>
  /\ UNCHANGED otherThanService

\* the routes fetch throws: collectRoutes has no catch clause
CollectRoutesThrows(e) ==
  /\ svpc = "routes"
  /\ svpc' = "returned"
  /\ svFaults' = svFaults \cup {[kind |-> "routes", error |-> e]}
  /\ svOutcome' = ServiceCatch(svService, e)
  /\ UNCHANGED <<svService, svRoutes, svRouteStops, svStopRoutesMap, svStopsMap,
                 svAllStops, svCounters, svFiles>>
  /\ UNCHANGED otherThanService

\* CTB: collectAllRouteStops and processRouteStopResults; the routes of
\* failed had a rejected direction fetch
CollectAllRouteStops(failed) ==
  /\ svpc = "routeStops"
  /\ svService = "ctb"
  /\ failed \subseteq RouteSet(svRoutes)
  /\ svpc' = "details"
  /\ svRouteStops' = ProcessRouteStopResults(svRoutes, failed)
  /\ svStopRoutesMap' = StopRoutesMap("ctb", svRoutes, svRouteStops')
  /\ svFaults' = svFaults \cup {[kind |-> "routeStop", route |-> r] : r \in failed}
  /\ UNCHANGED <<svService, svRoutes, svStopsMap, svAllStops, svCounters, svFiles, svOutcome>>
  /\ UNCHANGED otherThanService

\* KMB: collectAllRouteStopsData (a failed fetch gives []) and
\* processRouteStopsData
CollectAllRouteStopsData(ok) ==
  /\ svpc = "routeStops"
  /\ svService = "kmb"
  /\ svpc' = "details"
  /\ svRouteStops' = ProcessRouteStopsData(IF ok THEN KmbRouteStopFeed ELSE <<>>, svRoutes)
  /\ svStopRoutesMap' = StopRoutesMap("kmb", svRoutes, svRouteStops')
  /\ svFaults' = svFaults \cup (IF ok THEN {} ELSE {[kind |-> "routeStop", route |-> "all"]})
  /\ UNCHANGED <<svService, svRoutes, svStopsMap, svAllStops, svCounters, svFiles, svOutcome>>
  /\ UNCHANGED otherThanService

\* the stop details are collected: collectOptimizedStopDetails and
\* processStopDetailsResults (CTB), collectStopDetailsForStops and the
\* stopsMap loop (KMB, where a failed stop is one the list does not hold)
CollectServiceStopDetails(outcomes) ==
  /\ svpc = "details"
  /\ svpc' = "saveStops"
  /\ svStopsMap' = StopsMap(outcomes, svStopRoutesMap)
  /\ svFaults' = svFaults \cup
       {[kind |-> "stopDetail", stop |-> t] : t \in {u \in DOMAIN outcomes : outcomes[u] = "failed"}}
  /\ UNCHANGED <<svService, svRoutes, svRouteStops, svStopRoutesMap, svAllStops,
                 svCounters, svFiles, svOutcome>>
  /\ UNCHANGED otherThanService

\* a save loop that the first failed write ends
WrittenUntilFailure(all, failedWrites) ==
  LET order == SelectSeq(<<"S1", "S2", "S3", "2", "1A">>, LAMBDA n : n \in DOMAIN all)
  IN  [n \in {order[k] : k \in {j \in 1..Len(order) :
                                  \A h \in 1..j : order[h] \notin failedWrites}} |-> all[n]]

\* the files a save loop leaves: saveStopData and saveRouteData catch the
\* error of a failed write and return a failure Result, the loop goes on
WrittenFiles(all, failedWrites) == [n \in DOMAIN all \ failedWrites |-> all[n]]

\* the stop records are built and saved; the writes of failedWrites fail,
\* the write of allstops.json succeeds or not
SaveStopData(failedWrites, allStopsOk) ==
  /\ svpc = "saveStops"
  /\ svpc' = "saveRoutes"
  /\ svAllStops' = AllStopsData(svService, svStopRoutesMap, svStopsMap)
  /\ failedWrites \subseteq DOMAIN svAllStops'
  /\ svCounters' = [svCounters EXCEPT
                      !.processedStops = ProcessedStops(svService, svStopRoutesMap, svStopsMap),
                      !.saveErrors = Cardinality(failedWrites)]
  /\ svFiles' = [svFiles EXCEPT
                   !.stops = WrittenFiles(svAllStops', failedWrites),
                   !.allstops = IF allStopsOk THEN svAllStops' ELSE svFiles.allstops]
  /\ svFaults' = svFaults \cup {[kind |-> "write", file |-> s] : s \in failedWrites}
                          \cup (IF allStopsOk THEN {} ELSE {[kind |-> "write", file |-> "allstops"]})
  /\ UNCHANGED <<svService, svRoutes, svRouteStops, svStopRoutesMap, svStopsMap, svOutcome>>
  /\ UNCHANGED otherThanService

\* the route files and allroutes.json are saved and the run returns its
\* statistics
SaveRouteData(failedWrites, allRoutesOk) ==
  /\ svpc = "saveRoutes"
  /\ svpc' = "returned"
  /\ failedWrites \subseteq DOMAIN svRouteStops
  /\ LET all == AllRoutesData(svService, svRouteStops, svStopsMap)
     IN  svFiles' = [svFiles EXCEPT
                       !.routes = WrittenFiles(all, failedWrites),
                       !.allroutes = IF allRoutesOk
                                       THEN [written |-> TRUE,
                                             content |-> CompactData(all, svService)]
                                       ELSE svFiles.allroutes]
  /\ svCounters' = [svCounters EXCEPT !.routeSaveErrors = Cardinality(failedWrites)]
  /\ svFaults' = svFaults \cup {[kind |-> "write", file |-> r] : r \in failedWrites}
                          \cup (IF allRoutesOk THEN {} ELSE {[kind |-> "write", file |-> "allroutes"]})
  /\ svOutcome' = ServiceSuccess(
       [totalRoutes |-> Len(svRoutes),
        totalStops |-> Cardinality(DOMAIN svStopRoutesMap),
        successfulStops |-> svCounters.processedStops,
        saveErrors |-> svCounters.saveErrors + svCounters'.routeSaveErrors])
  /\ UNCHANGED <<svService, svRoutes, svRouteStops, svStopRoutesMap, svStopsMap, svAllStops>>
  /\ UNCHANGED otherThanService

\* the next run starts from an empty output directory
ServiceDone ==
  /\ svpc = "returned"
  /\ svpc' = "idle"
  /\ svService' = Null
  /\ svRoutes' = <<>>
  /\ svRouteStops' = <<>>
  /\ svStopRoutesMap' = <<>>
  /\ svStopsMap' = <<>>
  /\ svAllStops' = <<>>
  /\ svCounters' = NoCounters
  /\ svFiles' = NoFiles
  /\ svFaults' = {}
  /\ svOutcome' = Unsettled
  /\ UNCHANGED otherThanService

NextService ==
  \/ \E s \in {"ctb", "kmb"} : StartRun(s)
  \/ EnsureDirectories
  \/ \E e \in MkdirErrors : EnsureDirectoriesThrows(e)
  \/ \E l \in RoutesFeeds : CollectRoutes(l)
  \/ \E e \in FetchErrors : CollectRoutesThrows(e)
  \/ \E failed \in SUBSET {"1A", "2"} : CollectAllRouteStops(failed)
  \/ \E ok \in BOOLEAN : CollectAllRouteStopsData(ok)
  \/ svpc = "details" /\ \E outcomes \in [DOMAIN svStopRoutesMap -> DetailOutcomes(svService)] :
       CollectServiceStopDetails(outcomes)
  \/ \E failedWrites \in SUBSET StopIds : \E ok \in BOOLEAN : SaveStopData(failedWrites, ok)
  \/ \E failedWrites \in SUBSET {"1A", "2"} : \E ok \in BOOLEAN : SaveRouteData(failedWrites, ok)
  \/ ServiceDone

ServiceInit == InitService /\ IdleBatch /\ IdleFetch /\ IdleLimiter /\ IdleRouteStops /\ IdleStopDetails /\ IdleCompare /\ IdleOptimized /\ IdleEnrich /\ IdleEnrichRoute /\ IdleNearby /\ IdleSaveAllRoutes /\ IdleProcess /\ IdleBulk /\ IdleRun /\ IdleKy /\ IdleRequests

SpecService == ServiceInit /\ [][NextService]_vars

\* the directory creation or the routes fetch threw in this run
SystemicFault == {f \in svFaults : f.kind \in {"mkdir", "routes"}}

\* C17: collectAndSaveData never rejects.  It resolves to a failure Result,
\* a ProcessingError carrying the original message and stack, when the
\* directory creation or the routes fetch throws, and to a success Result
\* in every run in which only route-stop fetches, stop-detail fetches or
\* file writes fail.
C17_ServiceNeverRejects ==
  /\ svOutcome.settled => ~svOutcome.rejected
  /\ svpc = "returned" =>
       /\ svOutcome.settled
       /\ IF SystemicFault # {}
            THEN /\ ~svOutcome.ok
                 /\ svOutcome.error.name = "ProcessingError"
                 /\ \E f \in SystemicFault :
                      /\ svOutcome.error.details.originalError = f.error.message
                      /\ svOutcome.error.details.stack = f.error.stack
            ELSE svOutcome.ok

\* a run with a failed route-stop fetch, a failed stop-detail fetch and a
\* failed file write returns success
C17_Witness ==
  /\ svpc = "returned"
  /\ svOutcome.ok
  /\ \E f \in svFaults : f.kind = "routeStop"
  /\ \E f \in svFaults : f.kind = "stopDetail"
  /\ \E f \in svFaults : f.kind = "write"

\* the stops whose detail fetch failed in this run
FailedStops == {f.stop : f \in {g \in svFaults : g.kind = "stopDetail"}}

\* the published files hold the full record of the stop
PublishesFullRecord(t) ==
  /\ t \in DOMAIN svFiles.stops
  /\ t \in DOMAIN svFiles.allstops
  /\ svFiles.stops[t] = svFiles.allstops[t]
  /\ \A f \in DOMAIN StopRecord(t) :
       f \in DOMAIN svFiles.stops[t] /\ svFiles.stops[t][f] = StopRecord(t)[f]

\* the published files hold a record of the stop whose names are
\* placeholders made from its identifier
PublishesFallbackRecord(t) ==
  /\ t \in DOMAIN svFiles.stops
  /\ t \in DOMAIN svFiles.allstops
  /\ svFiles.stops[t] = svFiles.allstops[t]
  /\ svFiles.stops[t].stop = t
  /\ svFiles.stops[t].name_en = "Stop " \o t
  /\ svFiles.stops[t].name_tc = "站點 " \o t
  /\ svFiles.stops[t].name_sc = "站点 " \o t

\* C18: when the stop-detail fetch fails for exactly one discovered stop
\* and everything else succeeds, the run returns success, publishes the
\* full record of every other stop and a fallback record with placeholder
\* names for the failed stop, and the statistics show exactly one stop
\* error (totalStops - successfulStops = 1).
C18_OneFailedStopDetail ==
  (svpc = "returned" /\ Cardinality(svFaults) = 1 /\ Cardinality(FailedStops) = 1) =>
    /\ svOutcome.ok
    /\ \A t \in DOMAIN svStopRoutesMap \ FailedStops : PublishesFullRecord(t)
    /\ \A t \in FailedStops : PublishesFallbackRecord(t)
    /\ svOutcome.value.totalStops - svOutcome.value.successfulStops = 1

\* the individual stop and route saves that failed in this run
FailedSaves ==
  {f.file : f \in {g \in svFaults : g.kind = "write" /\ g.file \notin {"allstops", "allroutes"}}}

\* C27: saveStopData and saveRouteData never reject: a failed write yields
\* a failure Result, the service still attempts the save of every
\* remaining stop and route, and the saveErrors statistic of the run
\* equals the number of individual stop and route saves that failed.
C27_SavesAreIndependent ==
  /\ svpc \in {"saveRoutes", "returned"} /\ SystemicFault = {} =>
       \A s \in DOMAIN svAllStops :
         IF s \in FailedSaves THEN s \notin DOMAIN svFiles.stops
         ELSE s \in DOMAIN svFiles.stops /\ svFiles.stops[s] = svAllStops[s]
  /\ svpc = "returned" /\ SystemicFault = {} =>
       /\ svOutcome.settled /\ ~svOutcome.rejected /\ svOutcome.ok
       /\ \A r \in DOMAIN svRouteStops :
            IF r \in FailedSaves THEN r \notin DOMAIN svFiles.routes
            ELSE r \in DOMAIN svFiles.routes
       /\ svOutcome.value.saveErrors = Cardinality(FailedSaves)

\* a run in which the save of the first stop and of the first route failed
\* and the later stops and the other route were saved
C27_Witness ==
  /\ svpc = "returned"
  /\ svOutcome.ok
  /\ FailedSaves = {"S1", "2"}
  /\ DOMAIN svFiles.stops = {"S2", "S3"}
  /\ DOMAIN svFiles.routes = {"1A"}
  /\ svOutcome.value.saveErrors = 2

(***************************************************************************)
(* The file-backed cache under concurrent in-process callers: get and set  *)
(* calls start while other calls are between their awaits (fs.stat,        *)
(* fs.readFile, fs.unlink, fs.mkdir, fs.writeFile); a last get is issued   *)
(* once every earlier call has completed.                                  *)
(***************************************************************************)
\* cache.get(url) called while other calls may be in flight
ConcurrentGet(c, url) ==
  /\ fc[c].pc = "idle"
  /\ ncalls < MaxOps
  /\ ncalls' = ncalls + 1
  /\ LET rec == [IdleCall EXCEPT !.op = "get", !.url = url]
     IN fc' = [fc EXCEPT ![c] =
                 IF enabled THEN [rec EXCEPT !.pc = "stat"]
                 ELSE [rec EXCEPT !.pc = "done", !.outcome = "fulfilled"]]
  /\ UNCHANGED <<now, enabled, files, currentTick, activeCount, lastSet>>
  /\ UNCHANGED otherThanFetch

\* cache.set(url, v) called while other calls may be in flight
ConcurrentSet(c, url, v) ==
  /\ fc[c].pc = "idle"
  /\ ncalls < MaxOps
  /\ ncalls' = ncalls + 1
  /\ LET rec == [IdleCall EXCEPT !.op = "set", !.url = url, !.data = v]
     IN fc' = [fc EXCEPT ![c] =
                 IF enabled THEN [rec EXCEPT !.pc = "mkdir"]
                 ELSE [rec EXCEPT !.pc = "done", !.outcome = "fulfilled"]]
  /\ UNCHANGED <<now, enabled, files, currentTick, activeCount, lastSet>>
  /\ UNCHANGED otherThanFetch

\* cache.get(url) called once every earlier call has completed; no call
\* starts after it
GetAfterwards(c, url) ==
  /\ AllIdle
  /\ ncalls = MaxOps
  /\ ncalls' = ncalls + 1
  /\ LET rec == [IdleCall EXCEPT !.op = "get", !.url = url]
     IN fc' = [fc EXCEPT ![c] =
                 IF enabled THEN [rec EXCEPT !.pc = "stat"]
                 ELSE [rec EXCEPT !.pc = "done", !.outcome = "fulfilled"]]
  /\ UNCHANGED <<now, enabled, files, currentTick, activeCount, lastSet>>
  /\ UNCHANGED otherThanFetch

NextCacheRace ==
  \/ \E c \in Callers : ConcurrentGet(c, "u1")
  \/ \E c \in Callers, v \in Bodies : ConcurrentSet(c, "u1", v)
  \/ GetAfterwards(1, "u1")
  \/ \E c \in Callers : GetStat(c)
  \/ \E c \in Callers : GetRead(c)
  \/ \E c \in Callers : GetUnlink(c)
  \/ \E c \in Callers, ok \in BOOLEAN : SetMkdir(c, ok)
  \/ \E c \in Callers, how \in {"ok", "fail", "partial"} : SetWrite(c, how)
  \/ \E c \in Callers : Finish(c)
  \/ Tick

SpecCacheRace == FetchInit /\ [][NextCacheRace]_vars

\* C30: when a get(url) that finds an expired entry runs interleaved with
\* a set(url, v) of another caller, the expiring get does not remove the
\* freshly written entry: once both have completed, a get(url) within the
\* TTL of the set returns v.
C30_ExpiringGetKeepsFreshEntry ==
  \A c \in Callers :
    (/\ ncalls = MaxOps + 1
     /\ fc[c].op = "get"
     /\ fc[c].pc = "done"
     /\ fc[c].prior.set /\ fc[c].prior.ok /\ fc[c].prior.within) =>
      fc[c].result = fc[c].prior.v

(***************************************************************************)
(* routeStops and stopRoutesMap.  CTB: processRouteStopResults filters the *)
(* settled settled of collectAllRouteStops and adds every kept route to    *)
(* the Set of each stop of its two lists.  KMB: the service builds the     *)
(* Sets from the routeStops of processRouteStopsData.                      *)
(***************************************************************************)
\* the lists of associations a direction of a route can hold
LegLists ==
  {<<>>, <<[stop |-> "S1"]>>, <<[stop |-> "S2"]>>,
   <<[stop |-> "S1"], [stop |-> "S2"]>>, <<[stop |-> "S3"], [stop |-> "S2"]>>,
   <<[stop |-> "S3"], [stop |-> "S3"]>>}

\* the settled settled of one route: the promise of the batch rejected, or
\* fulfilled with the value of collectRouteStops, whose error flag is set
\* when a direction failed (that direction is then empty)
SettledResults26(r) ==
  {[status |-> "rejected"]}
    \cup {[status |-> "fulfilled",
           value |-> [route |-> r, inbound |-> li, outbound |-> lo, error |-> FALSE]] :
            li \in LegLists, lo \in LegLists}
    \cup {[status |-> "fulfilled",
           value |-> [route |-> r, inbound |-> li, outbound |-> lo, error |-> TRUE]] :
            li \in {<<>>, <<[stop |-> "S3"], [stop |-> "S2"]>>},
            lo \in {<<>>, <<[stop |-> "S1"]>>}}

\* a filter that forgets the error flag
KeepsFulfilled(x) == x.status = "fulfilled"

\* result.status === 'fulfilled' && !result.value.error
KeepsResult(x) == x.status = "fulfilled" /\ ~x.value.error

\* .filter(...).map(result => result.value)
KeptValues(settled) ==
  LET kept == SelectSeq(settled, KeepsResult)
  IN  [k \in 1..Len(kept) |-> kept[k].value]

\* routeStops[result.route] = {inbound, outbound}; a later result of the
\* same route replaces an earlier one
RouteStopsOfResults(settled) ==
  LET values == KeptValues(settled)
      Last(r) == CHOOSE k \in 1..Len(values) :
                   /\ values[k].route = r
                   /\ \A j \in (k + 1)..Len(values) : values[j].route # r
  IN  [r \in {values[k].route : k \in 1..Len(values)} |->
         [inbound |-> values[Last(r)].inbound, outbound |-> values[Last(r)].outbound]]

\* the routes in the order in which the kept settled add them to the Sets
KeptRoutes(settled) ==
  LET values == KeptValues(settled) IN [k \in 1..Len(values) |-> values[k].route]

InitProcess == IdleProcess

\* processRouteStopResults(routeStopResults)
ProcessRouteStopResultsCall(settled) ==
  /\ prpc = "idle"
  /\ prpc' = "done"
  /\ prService' = "ctb"
  /\ routeStopResults' = settled
  /\ prRouteStops' = RouteStopsOfResults(settled)
  /\ prStopRoutesMap' = StopRoutesMap("ctb", KeptRoutes(settled), prRouteStops')
  /\ UNCHANGED prInput
  /\ UNCHANGED otherThanProcess

\* KMBService: processRouteStopsData and the stopRoutesMap loop
BuildStopRoutesMap(routes, allRouteStops) ==
  /\ prpc = "idle"
  /\ prpc' = "done"
  /\ prService' = "kmb"
  /\ prInput' = [routes |-> routes, allRouteStops |-> allRouteStops]
  /\ prRouteStops' = ProcessRouteStopsData(allRouteStops, routes)
  /\ prStopRoutesMap' = StopRoutesMap("kmb", routes, prRouteStops')
  /\ UNCHANGED routeStopResults
  /\ UNCHANGED otherThanProcess

\* the service goes on with the maps; the next run starts
ProcessDone ==
  /\ prpc = "done"
  /\ prpc' = "idle"
  /\ prService' = Null
  /\ routeStopResults' = <<>>
  /\ prInput' = NoInput
  /\ prRouteStops' = <<>>
  /\ prStopRoutesMap' = <<>>
  /\ UNCHANGED otherThanProcess

\* the route-stop feeds of KMB: the whole feed, a part of it, nothing
KmbFeeds == {KmbRouteStopFeed, SubSeq(KmbRouteStopFeed, 2, 4), <<>>}

NextProcess ==
  \/ /\ prpc = "idle"
     /\ \E r1 \in SettledResults26("1A"), r2 \in SettledResults26("2") :
          \E settled \in {<<r1>>, <<r2>>, <<r1, r2>>, <<r2, r1>>} :
            ProcessRouteStopResultsCall(settled)
  \/ /\ prpc = "idle"
     /\ \E routes \in RoutesFeeds \cup {<<"2", "1A">>}, feed \in KmbFeeds :
          BuildStopRoutesMap(routes, feed)
  \/ ProcessDone

ProcessInit == InitProcess /\ IdleBatch /\ IdleFetch /\ IdleLimiter /\ IdleRouteStops /\ IdleStopDetails /\ IdleCompare /\ IdleOptimized /\ IdleEnrich /\ IdleEnrichRoute /\ IdleNearby /\ IdleSaveAllRoutes /\ IdleService /\ IdleBulk /\ IdleRun /\ IdleKy /\ IdleRequests

SpecProcess == ProcessInit /\ [][NextProcess]_vars

\* the routes whose settled result is fulfilled with error false
FulfilledWithoutError ==
  {routeStopResults[k].value.route :
     k \in {j \in 1..Len(routeStopResults) :
               /\ routeStopResults[j].status = "fulfilled"
               /\ routeStopResults[j].value.error = FALSE}}

\* the kept routes that list the stop in their inbound or outbound list
RoutesReferencing(stop) ==
  {r \in DOMAIN prRouteStops :
     \/ \E k \in 1..Len(prRouteStops[r].inbound) : prRouteStops[r].inbound[k].stop = stop
     \/ \E k \in 1..Len(prRouteStops[r].outbound) : prRouteStops[r].outbound[k].stop = stop}

\* C26: processRouteStopResults keeps exactly the routes whose settled
\* result is fulfilled with error false, so a route with a failed direction
\* is left out together with the stops of its successful direction; and
\* stopRoutesMap maps each stop to exactly the set of kept routes that
\* list it, so every stop of the map has a non-empty route set and every
\* route of that set lists the stop.
C26_KeptRoutesAndStopRoutes ==
  prpc = "done" =>
    /\ prService = "ctb" =>
         /\ DOMAIN prRouteStops = FulfilledWithoutError
         /\ \A k \in 1..Len(routeStopResults) :
              (routeStopResults[k].status = "fulfilled" /\ ~routeStopResults[k].value.error) =>
                /\ prRouteStops[routeStopResults[k].value.route].inbound
                     = routeStopResults[k].value.inbound
                /\ prRouteStops[routeStopResults[k].value.route].outbound
                     = routeStopResults[k].value.outbound
    /\ \A stop \in StopIds :
         IF RoutesReferencing(stop) = {}
           THEN stop \notin DOMAIN prStopRoutesMap
           ELSE /\ stop \in DOMAIN prStopRoutesMap
                /\ {prStopRoutesMap[stop][k] : k \in 1..Len(prStopRoutesMap[stop])}
                     = RoutesReferencing(stop)
                /\ Len(prStopRoutesMap[stop]) = Cardinality(RoutesReferencing(stop))

\* route 1A failed in one direction and returned S3 and S2 in the other;
\* route 2 was kept and lists S2: the map holds S2 for route 2 only and no S3
C26_Witness ==
  /\ prpc = "done"
  /\ prService = "ctb"
  /\ Len(routeStopResults) = 2
  /\ \E k \in 1..2 :
       /\ routeStopResults[k].status = "fulfilled"
       /\ routeStopResults[k].value.route = "1A"
       /\ routeStopResults[k].value.error
       /\ routeStopResults[k].value.inbound = <<[stop |-> "S3"], [stop |-> "S2"]>>
  /\ DOMAIN prRouteStops = {"2"}
  /\ "S3" \notin DOMAIN prStopRoutesMap
  /\ "S2" \in DOMAIN prStopRoutesMap
  /\ prStopRoutesMap["S2"] = <<"2">>

(***************************************************************************)
(* KMBDataCollector.collectStopDetailsForStops: one second of delay, then  *)
(* up to three attempts of the bulk stops fetch with a timer between two   *)
(* attempts; the outer catch turns the last error into an empty list.      *)
(***************************************************************************)
\* let retries = 3
BulkRetries == 3

\* the lists of stop records the bulk endpoint can answer with
BulkStopLists ==
  {<<>>} \cup {<<StopRecord(s)>> : s \in StopIds}
    \cup {<<StopRecord(p[1]), StopRecord(p[2])>> :
            p \in {q \in StopIds \X StopIds : q[1] # q[2]}}
    \cup {<<StopRecord(p[1]), StopRecord(p[2]), StopRecord(p[3])>> :
            p \in {q \in StopIds \X StopIds \X StopIds :
                     q[1] # q[2] /\ q[1] # q[3] /\ q[2] # q[3]}}

\* the bodies of the answer: with a data list, or without one
BulkAnswers == {[data |-> l] : l \in BulkStopLists} \cup {[type |-> "StopList"]}

\* the errors of a failed attempt
BulkErrors == {[message |-> "socket hang up", code |-> "ECONNRESET"],
               [message |-> "Request timed out", code |-> "ETIMEDOUT"],
               [message |-> "Request failed with status code 502", code |-> "unknown error"]}

\* Math.pow(2, 4 - retries) * 1000
BackoffDelay(left) == (2 ^ (4 - left)) * 1000

\* data.data || []
AllStopsOf(data) == IF "data" \in DOMAIN data THEN data.data ELSE <<>>

\* allStops.map(stopData => ({stopId: stopData.stop, data: stopData, error: false}))
MappedStops(allStops) ==
  [k \in 1..Len(allStops) |->
     [stopId |-> allStops[k].stop, data |-> allStops[k], error |-> FALSE]]

\* an outer handler that lets the last error escape
RethrowBulk(error) == [settled |-> TRUE, kind |-> "thrown", error |-> error]

\* catch (error) { ...; return [] }
CatchBulk(error) == [settled |-> TRUE, kind |-> "returned", value |-> <<>>]

InitBulk == IdleBulk

\* the call; the timer of one second before the first attempt starts
CollectStopDetailsForStops ==
  /\ bkpc = "idle"
  /\ bkpc' = "delay"
  /\ retries' = BulkRetries
  /\ bkAttempts' = 0
  /\ bkWaits' = <<>>
  /\ lastError' = NoError
  /\ bkOutcome' = Unsettled
  /\ UNCHANGED otherThanBulk

\* the first timer fires: the loop is entered with retries > 0
BulkDelayElapsed ==
  /\ bkpc = "delay"
  /\ bkpc' = "fetch"
  /\ bkWaits' = Append(bkWaits, 1000)
  /\ UNCHANGED <<retries, bkAttempts, lastError, bkOutcome>>
  /\ UNCHANGED otherThanBulk

\* fetchJson resolves: break, map the stops, return
BulkFetchResolves(data) ==
  /\ bkpc = "fetch"
  /\ retries > 0
  /\ bkpc' = "done"
  /\ bkAttempts' = bkAttempts + 1
  /\ bkOutcome' = [settled |-> TRUE, kind |-> "returned",
                   value |-> MappedStops(AllStopsOf(data))]
  /\ UNCHANGED <<retries, bkWaits, lastError>>
  /\ UNCHANGED otherThanBulk

\* fetchJson rejects: retries--, then either the throw that the outer catch
\* receives, or the timer of the backoff
BulkFetchRejects(error) ==
  /\ bkpc = "fetch"
  /\ retries > 0
  /\ bkAttempts' = bkAttempts + 1
  /\ lastError' = error
  /\ retries' = retries - 1
  /\ IF retries' = 0
       THEN /\ bkpc' = "done"
            /\ bkOutcome' = CatchBulk(error)
            /\ UNCHANGED bkWaits
       ELSE /\ bkpc' = "backoff"
            /\ bkWaits' = Append(bkWaits, BackoffDelay(retries'))
            /\ UNCHANGED bkOutcome
  /\ UNCHANGED otherThanBulk

\* the timer of the backoff fires: the loop goes on
BulkBackoffElapsed ==
  /\ bkpc = "backoff"
  /\ bkpc' = "fetch"
  /\ UNCHANGED <<retries, bkAttempts, bkWaits, lastError, bkOutcome>>
  /\ UNCHANGED otherThanBulk

\* the caller takes the list; the next run starts
BulkDone ==
  /\ bkpc = "done"
  /\ bkpc' = "idle"
  /\ retries' = 0
  /\ bkAttempts' = 0
  /\ bkWaits' = <<>>
  /\ lastError' = NoError
  /\ bkOutcome' = Unsettled
  /\ UNCHANGED otherThanBulk

NextBulk ==
  \/ CollectStopDetailsForStops
  \/ BulkDelayElapsed
  \/ /\ bkpc = "fetch"
     /\ \E data \in BulkAnswers : BulkFetchResolves(data)
  \/ /\ bkpc = "fetch"
     /\ \E error \in BulkErrors : BulkFetchRejects(error)
  \/ BulkBackoffElapsed
  \/ BulkDone

BulkInit == InitBulk /\ IdleBatch /\ IdleFetch /\ IdleLimiter /\ IdleRouteStops /\ IdleStopDetails /\ IdleCompare /\ IdleOptimized /\ IdleEnrich /\ IdleEnrichRoute /\ IdleNearby /\ IdleSaveAllRoutes /\ IdleService /\ IdleProcess /\ IdleRun /\ IdleKy /\ IdleRequests

SpecBulk == BulkInit /\ [][NextBulk]_vars

\* timers fire and every fetch settles (each request carries its timeout)
FairSpecBulk == BulkInit /\ [][NextBulk]_vars /\ WF_vars(NextBulk)

\* the timers awaited after failed attempts: every wait but the first
BackoffWaits == IF bkWaits = <<>> THEN <<>> ELSE Tail(bkWaits)

\* C23: the waits between consecutive failed attempts of the bulk stops
\* fetch follow the series 2s, 4s, 8s: the wait after the first failed
\* attempt is 2 seconds and each later wait is double the previous one.
C23_BackoffSeries ==
  /\ Len(BackoffWaits) >= 1 => BackoffWaits[1] = 2000
  /\ \A k \in 2..Len(BackoffWaits) : BackoffWaits[k] = 2 * BackoffWaits[k - 1]

\* C28: collectStopDetailsForStops ends after at most three attempts of the
\* bulk fetch: with the mapped stop records, each with error false, right
\* after the first attempt that succeeds, and with an empty list, not a
\* throw, after the third consecutive failure.
C28_BulkTerminates ==
  /\ [](/\ bkAttempts <= 3
        /\ bkpc = "done" =>
             /\ bkOutcome.settled
             /\ bkOutcome.kind = "returned"
             /\ \A k \in 1..Len(bkOutcome.value) :
                  /\ bkOutcome.value[k].error = FALSE
                  /\ bkOutcome.value[k].stopId = bkOutcome.value[k].data.stop
             /\ (lastError # NoError /\ bkAttempts = 3 /\ retries = 0) => bkOutcome.value = <<>>
             /\ retries > 0 => bkAttempts = 3 - retries + 1
        /\ bkpc \in {"fetch", "backoff"} => (bkAttempts = 3 - retries /\ retries > 0))
  /\ (bkpc = "delay" ~> bkpc = "done")

\* three attempts failed in a row and the call returned the empty list
C28_Witness ==
  /\ bkpc = "done"
  /\ bkAttempts = 3
  /\ retries = 0
  /\ lastError # NoError
  /\ Len(bkWaits) = 3
  /\ bkOutcome = [settled |-> TRUE, kind |-> "returned", value |-> <<>>]

(***************************************************************************)
(* The runners: main of the collect-all-data runner walks CTB and KMB,     *)
(* main of the KMB runner runs KMB alone.  process.exit(1) ends the        *)
(* process at once; a main that returns leaves the exit code at 0.         *)
(***************************************************************************)
\* const services = [{name: 'CTB', ...}, {name: 'KMB', ...}]
ServicesOf(rn) == IF rn = "all" THEN <<"ctb", "kmb">> ELSE <<"kmb">>

\* the statistics a successful run can carry
RunStats ==
  {[totalRoutes |-> 1, totalStops |-> t, successfulStops |-> s, saveErrors |-> e] :
     t \in 0..MaxStops, s \in 0..MaxStops, e \in 0..MaxStops}

\* what collectAndSaveData of service s can settle with: a failure Result,
\* a success Result, a rejection
ServiceOutcomes(s) ==
  {ServiceCatch(s, e) : e \in MkdirErrors}
    \cup {ServiceSuccess(st) : st \in {x \in RunStats : x.successfulStops <= x.totalStops}}
    \cup {[settled |-> TRUE, rejected |-> TRUE, error |-> ErrorOf("TypeError")]}

\* a runner that also treats save errors and missing stops as fatal
FatalOrPartial(o) ==
  \/ o.rejected
  \/ ~o.ok
  \/ o.value.saveErrors > 0
  \/ o.value.successfulStops < o.value.totalStops

\* the catch block, and if (result.isFailure())
Fatal(o) == o.rejected \/ ~o.ok

\* the lines main writes for one settled service
LinesFor(s, o) ==
  IF o.rejected THEN <<[stream |-> "error", line |-> "Error in collection", of |-> s]>>
  ELSE IF ~o.ok
    THEN <<[stream |-> "error", line |-> "data collection failed", of |-> s,
            message |-> o.error.message],
           [stream |-> "error", line |-> "Details", of |-> s, details |-> o.error.details]>>
  ELSE <<[stream |-> "log", line |-> "Summary", of |-> s,
          successfulStops |-> o.value.successfulStops, totalStops |-> o.value.totalStops]>>
         \o (IF o.value.saveErrors > 0
               THEN <<[stream |-> "warn", line |-> "Warning", of |-> s,
                       saveErrors |-> o.value.saveErrors]>>
               ELSE <<>>)

InitRun == IdleRun

\* node runs the script: main() starts with its first service
Main(rn) ==
  /\ rnpc = "idle"
  /\ rnpc' = "running"
  /\ runner' = rn
  /\ rnSettled' = <<>>
  /\ rnOutput' = <<>>
  /\ rnExit' = NotExited
  /\ UNCHANGED otherThanRun

\* collectAndSaveData of the current service settles with o: process.exit(1)
\* on a failure Result or a rejection, else the summary, the warning and the
\* next service; main returns after the last one
ServiceSettles(o) ==
  /\ rnpc = "running"
  /\ Len(rnSettled) < Len(ServicesOf(runner))
  /\ rnSettled' = Append(rnSettled, o)
  /\ rnOutput' = rnOutput \o LinesFor(ServicesOf(runner)[Len(rnSettled) + 1], o)
  /\ IF Fatal(o)
       THEN /\ rnpc' = "exited"
            /\ rnExit' = [exited |-> TRUE, code |-> 1]
       ELSE IF Len(rnSettled') = Len(ServicesOf(runner))
         THEN /\ rnpc' = "exited"
              /\ rnExit' = [exited |-> TRUE, code |-> 0]
         ELSE UNCHANGED <<rnpc, rnExit>>
  /\ UNCHANGED runner
  /\ UNCHANGED otherThanRun

\* the next scheduled run starts a new process
RunDone ==
  /\ rnpc = "exited"
  /\ rnpc' = "idle"
  /\ runner' = Null
  /\ rnSettled' = <<>>
  /\ rnOutput' = <<>>
  /\ rnExit' = NotExited
  /\ UNCHANGED otherThanRun

NextRun ==
  \/ \E rn \in {"all", "kmb"} : Main(rn)
  \/ /\ rnpc = "running"
     /\ \E o \in ServiceOutcomes(ServicesOf(runner)[Len(rnSettled) + 1]) : ServiceSettles(o)
  \/ RunDone

RunInit == InitRun /\ IdleBatch /\ IdleFetch /\ IdleLimiter /\ IdleRouteStops /\ IdleStopDetails /\ IdleCompare /\ IdleOptimized /\ IdleEnrich /\ IdleEnrichRoute /\ IdleNearby /\ IdleSaveAllRoutes /\ IdleService /\ IdleProcess /\ IdleBulk /\ IdleKy /\ IdleRequests

SpecRun == RunInit /\ [][NextRun]_vars

\* some service run so far returned a failure Result or threw
SomeServiceFailed ==
  \E k \in 1..Len(rnSettled) : rnSettled[k].rejected \/ rnSettled[k].ok = FALSE

\* the console holds the count of file save errors of service s on the
\* warning stream
WarnsOfSaveErrors(s, n) ==
  \E k \in 1..Len(rnOutput) :
    /\ rnOutput[k].stream = "warn"
    /\ rnOutput[k].of = s
    /\ rnOutput[k].saveErrors = n

\* the console holds the summary of service s with the two stop counts
ShowsStops(s, done, total) ==
  \E k \in 1..Len(rnOutput) :
    /\ rnOutput[k].line = "Summary"
    /\ rnOutput[k].of = s
    /\ rnOutput[k].successfulStops = done
    /\ rnOutput[k].totalStops = total

KyRetryLimit == 3

\* { min: 0, max: 10, defaultValue: 3 }
MaxRetryLimit == 10

RetryLimitOptions == [min |-> 0, max |-> MaxRetryLimit, defaultValue |-> 3]

\* statusCodes: [408, 413, 429, 500, 502, 503, 504]
RetryStatusCodes == {408, 413, 429, 500, 502, 503, 504}

\* the status codes of an answer
StatusCodes == {200, 404} \cup RetryStatusCodes

\* process.env.API_RETRY_LIMIT: unset, or a string that parseInt reads as value
EnvRetryLimits ==
  {[set |-> FALSE]} \cup {[set |-> TRUE, value |-> n] : n \in {-1, 0, 1, 3, 5, MaxRetryLimit, MaxRetryLimit + 1}}

\* ConfigValidator.validateNumber(value, name, {min, max, defaultValue})
ValidateNumber(env, options) ==
  IF ~env.set THEN [ok |-> TRUE, value |-> options.defaultValue]
  ELSE IF env.value < options.min \/ env.value > options.max THEN [ok |-> FALSE]
  ELSE [ok |-> TRUE, value |-> env.value]

\* a client created with the retry limit of the configuration
ConfiguredRetryLimit == retryLimit.value

\* the limit of retries the client is created with
ClientRetryLimit == KyRetryLimit

\* the answer is retried: the status is one of statusCodes and fewer than
\* limit retries were made (sent counts the requests sent so far)
KyRetries(status, sent) == status \in RetryStatusCodes /\ sent <= ClientRetryLimit

InitKy == IdleKy

\* ConfigLoader.loadApiConfig: retryLimit, or the ConfigurationError
LoadApiConfig(env) ==
  /\ kypc = "idle"
  /\ retryLimit' = ValidateNumber(env, RetryLimitOptions)
  /\ IF retryLimit'.ok
       THEN /\ kypc' = "loaded"
            /\ UNCHANGED kyOutcome
       ELSE /\ kypc' = "done"
            /\ kyOutcome' = [settled |-> TRUE, kind |-> "ConfigurationError"]
  /\ UNCHANGED kyAnswers
  /\ UNCHANGED otherThanKy

\* fetchJson(url): this.client.get(url) sends the first request
KyGet ==
  /\ kypc = "loaded"
  /\ kypc' = "fetch"
  /\ UNCHANGED <<retryLimit, kyAnswers, kyOutcome>>
  /\ UNCHANGED otherThanKy

\* the server answers the request with a status: data, a retry, or the
\* NetworkError of fetchJson
KyAnswer(status) ==
  /\ kypc = "fetch"
  /\ kyAnswers' = Append(kyAnswers, status)
  /\ IF status = 200
       THEN /\ kypc' = "done"
            /\ kyOutcome' = [settled |-> TRUE, kind |-> "data"]
       ELSE IF KyRetries(status, Len(kyAnswers'))
         THEN UNCHANGED <<kypc, kyOutcome>>
         ELSE /\ kypc' = "done"
              /\ kyOutcome' = [settled |-> TRUE, kind |-> "NetworkError", statusCode |-> status]
  /\ UNCHANGED retryLimit
  /\ UNCHANGED otherThanKy

\* the next process starts
KyDone ==
  /\ kypc = "done"
  /\ kypc' = "idle"
  /\ retryLimit' = NotLoaded
  /\ kyAnswers' = <<>>
  /\ kyOutcome' = Unsettled
  /\ UNCHANGED otherThanKy

NextKy ==
  \/ /\ kypc = "idle"
     /\ \E env \in EnvRetryLimits : LoadApiConfig(env)
  \/ KyGet
  \/ /\ kypc = "fetch"
     /\ \E status \in StatusCodes : KyAnswer(status)
  \/ KyDone

KyInit == InitKy /\ IdleBatch /\ IdleFetch /\ IdleLimiter /\ IdleRouteStops /\ IdleStopDetails /\ IdleCompare /\ IdleOptimized /\ IdleEnrich /\ IdleEnrichRoute /\ IdleNearby /\ IdleSaveAllRoutes /\ IdleService /\ IdleProcess /\ IdleBulk /\ IdleRun /\ IdleRequests

SpecKy == KyInit /\ [][NextKy]_vars

\* every answer so far carried one of the retried status codes
OnlyTransientAnswers == \A k \in 1..Len(kyAnswers) : kyAnswers[k] \in RetryStatusCodes

\* C24: a GET that keeps answering with a transient status (408, 413, 429,
\* 500, 502, 503, 504) is retried as often as the configured retry limit
\* says: with API_RETRY_LIMIT = R (0 to 10, default 3) the request is sent
\* at most R + 1 times, and fetchJson fails after exactly R retries.
C24_RetriesFollowConfiguredLimit ==
  (retryLimit.ok /\ OnlyTransientAnswers) =>
    /\ Len(kyAnswers) <= ConfiguredRetryLimit + 1
    /\ (kypc = "done" /\ kyOutcome.kind = "NetworkError") =>
         Len(kyAnswers) = ConfiguredRetryLimit + 1

(***************************************************************************)
(* The requests of a run.  collectAllRouteStops walks routeList in batches *)
(* of this.concurrentRequests routes; collectRouteStops calls fetchJson    *)
(* for the inbound and the outbound list of its route at once; KMBService  *)
(* starts collectRoutes and collectAllRouteStopsData together.  The        *)
(* throttle of fetchJson starts at most requestsPerSecond calls per        *)
(* interval; a request stays in flight until it is answered or times out.  *)
(***************************************************************************)
\* the route ids of the routes endpoint, in its order
RouteFeed == <<"1A", "2", "3", "5B", "6">>

\* the fetchJson calls of one batch: two per route
RouteStopRequests(slice) == {<<routeList[k], d>> : k \in slice, d \in {"inbound", "outbound"}}

\* Promise.all([collectRoutes(), collectAllRouteStopsData()])
KmbRequests == {<<"kmb", "route">>, <<"kmb", "route-stop">>}

InitRequests == IdleRequests

\* collectAllRouteStops(routes): the first batch, if any
CollectAllRouteStopsStart(c, rps, n) ==
  /\ cqpc = "idle"
  /\ cqService' = "ctb"
  /\ cqLimit' = c
  /\ cqRate' = rps
  /\ routeList' = SubSeq(RouteFeed, 1, n)
  /\ cqOffset' = 0
  /\ cqWindow' = 0
  /\ IF n = 0
       THEN /\ cqpc' = "done"
            /\ requests' = <<>>
       ELSE /\ cqpc' = "batch"
            /\ requests' = [q \in {<<RouteFeed[k], d>> : k \in SliceOf(0, c, n),
                                                         d \in {"inbound", "outbound"}}
                              |-> "queued"]
  /\ UNCHANGED otherThanRequests

\* KMBService: step 1, both collections started in one Promise.all
KmbCollectStart(c, rps) ==
  /\ cqpc = "idle"
  /\ cqpc' = "batch"
  /\ cqService' = "kmb"
  /\ cqLimit' = c
  /\ cqRate' = rps
  /\ routeList' = <<>>
  /\ cqOffset' = 0
  /\ cqWindow' = 0
  /\ requests' = [q \in KmbRequests |-> "queued"]
  /\ UNCHANGED otherThanRequests

\* the throttle starts a queued call: this.client.get(url) is sent
RequestStarts(q) ==
  /\ cqpc = "batch"
  /\ requests[q] = "queued"
  /\ cqWindow < cqRate
  /\ cqWindow' = cqWindow + 1
  /\ requests' = [requests EXCEPT ![q] = "inflight"]
  /\ UNCHANGED <<cqpc, cqService, cqLimit, cqRate, routeList, cqOffset>>
  /\ UNCHANGED otherThanRequests

\* the request is answered, fails or times out
RequestSettles(q) ==
  /\ cqpc = "batch"
  /\ requests[q] = "inflight"
  /\ requests' = [requests EXCEPT ![q] = "settled"]
  /\ UNCHANGED <<cqpc, cqService, cqLimit, cqRate, routeList, cqOffset, cqWindow>>
  /\ UNCHANGED otherThanRequests

\* the interval of the throttle passes
IntervalPasses ==
  /\ cqpc = "batch"
  /\ cqWindow > 0
  /\ cqWindow' = 0
  /\ UNCHANGED <<cqpc, cqService, cqLimit, cqRate, routeList, cqOffset, requests>>
  /\ UNCHANGED otherThanRequests

\* await Promise.allSettled(batch...) / Promise.all returns: i += limit and
\* the next batch, or the end of the loop
BatchSettled ==
  /\ cqpc = "batch"
  /\ \A q \in DOMAIN requests : requests[q] = "settled"
  /\ IF cqService = "ctb" /\ cqOffset + cqLimit < Len(routeList)
       THEN /\ cqOffset' = cqOffset + cqLimit
            /\ requests' = [q \in RouteStopRequests(SliceOf(cqOffset', cqLimit, Len(routeList)))
                              |-> "queued"]
            /\ UNCHANGED cqpc
       ELSE /\ cqpc' = "done"
            /\ requests' = <<>>
            /\ UNCHANGED cqOffset
  /\ UNCHANGED <<cqService, cqLimit, cqRate, routeList, cqWindow>>
  /\ UNCHANGED otherThanRequests

\* the run goes on with the results; the next run starts
RequestsDone ==
  /\ cqpc = "done"
  /\ cqpc' = "idle"
  /\ cqService' = Null
  /\ cqLimit' = 0
  /\ cqRate' = 0
  /\ routeList' = <<>>
  /\ cqOffset' = 0
  /\ requests' = <<>>
  /\ cqWindow' = 0
  /\ UNCHANGED otherThanRequests

NextRequests ==
  \/ /\ cqpc = "idle"
     /\ \E c \in 1..MaxLimit, rps \in {RequestsPerSecond, REQUESTS_PER_SECOND}, n \in 0..MaxRoutes :
          CollectAllRouteStopsStart(c, rps, n)
  \/ /\ cqpc = "idle"
     /\ \E c \in 1..MaxLimit, rps \in {RequestsPerSecond, REQUESTS_PER_SECOND} :
          KmbCollectStart(c, rps)
  \/ /\ cqpc = "batch"
     /\ \E q \in DOMAIN requests : RequestStarts(q)
  \/ /\ cqpc = "batch"
     /\ \E q \in DOMAIN requests : RequestSettles(q)
  \/ IntervalPasses
  \/ BatchSettled
  \/ RequestsDone

RequestsInit == InitRequests /\ IdleBatch /\ IdleFetch /\ IdleLimiter /\ IdleRouteStops /\ IdleStopDetails /\ IdleCompare /\ IdleOptimized /\ IdleEnrich /\ IdleEnrichRoute /\ IdleNearby /\ IdleSaveAllRoutes /\ IdleService /\ IdleProcess /\ IdleBulk /\ IdleRun /\ IdleKy

SpecRequests == RequestsInit /\ [][NextRequests]_vars

\* the requests sent and not yet answered
InFlight == {q \in DOMAIN requests : requests[q] = "inflight"}

\* C22: in a run configured with concurrentRequests = C, the API requests
\* in flight at the same time never exceed C, the inbound/outbound pair of
\* every route of a batch and the two KMB fetches started together included.
C22_InFlightBounded == cqpc = "batch" => Cardinality(InFlight) <= cqLimit

====
